---- MODULE Spec2Model ----
(***************************************************************************)
(* Model of the client-side local folder filesystem of parsec-cloud:       *)
(* parsec/core/fs/local_folder_fs.py (class LocalFolderFS) together with   *)
(* the local manifest value types of parsec/core/types/local_manifests.py. *)
(*                                                                         *)
(* State: the in-memory manifest cache, the local blob store (LBS), the    *)
(* supply of fresh entry ids, and the record of the call in progress (the  *)
(* operation, its arguments, its outcome and the ordered log of the        *)
(* set_manifest calls and event emissions it made).                        *)
(*                                                                         *)
(* The wall-clock fields `created` and `updated` of the manifests are left *)
(* out: they are read by none of the operations modelled here.             *)
(***************************************************************************)
EXTENDS Integers, Sequences, FiniteSets, TLC

\* ------------------------------------------------------------------ bounds

\* Number of fresh ManifestAccess ids (uuid4 in the code) the model can draw.
MaxIds == 7
\* Longest path, in segments, given to an operation.
MaxDepth == 3
\* Number of calls made on the LocalFolderFS in one run.
MaxCalls == 4

\* An interrupted call has its first, ..., or MaxWrites-th LBS write fail.
MaxWrites == 2

\* Entry names given to the operations.
Names == {"a", "b"}

\* ------------------------------------------------------- identifiers, paths

\* The device's user manifest access (device.user_manifest_access).
RootId == 0
Ids == 0..MaxIds

\* device.device_id, a DeviceID "<user_id>@<device_name>".
LocalAuthor == [user_id |-> "alice", device_name |-> "pc1"]

\* DeviceID.user_id: the part before the "@".
UserIdOf(device_id) == device_id.user_id

\* FsPath values: absolute paths as sequences of names; the root is << >>.
Paths == UNION {[1..n -> Names] : n \in 0..MaxDepth}

RootPath == << >>

\* FsPath.parent: the root is its own parent.
Parent(p) == IF Len(p) = 0 THEN p ELSE SubSeq(p, 1, Len(p) - 1)

\* FsPath.name: the last segment, the empty string for the root.
NameOf(p) == IF Len(p) = 0 THEN "" ELSE p[Len(p)]

\* FsPath.is_root
IsRoot(p) == Parent(p) = p

\* dst.relative_to(src) does not raise: src is a prefix of dst (or equal).
RelativeTo(dst, src) == /\ Len(src) <= Len(dst)
                        /\ SubSeq(dst, 1, Len(src)) = src

\* The order in which the model walks the names of a children mapping.
NameOrder == <<"", "a", "b">>

ChildNames(children) == SelectSeq(NameOrder, LAMBDA n : n \in DOMAIN children)

\* ---------------------------------------------------------------- manifests

NoChildren == [n \in {} |-> RootId]

LocalFileManifest(author, size, blocks, dirty_blocks) ==
    [cls |-> "file", author |-> author, base_version |-> 0, need_sync |-> TRUE,
     is_placeholder |-> TRUE, size |-> size, blocks |-> blocks,
     dirty_blocks |-> dirty_blocks]

LocalFolderManifest(author, children) ==
    [cls |-> "folder", author |-> author, base_version |-> 0, need_sync |-> TRUE,
     is_placeholder |-> TRUE, children |-> children]

LocalWorkspaceManifest(author, children) ==
    [cls |-> "workspace", author |-> author, base_version |-> 0,
     need_sync |-> TRUE, is_placeholder |-> TRUE, children |-> children,
     creator |-> UserIdOf(author), participants |-> <<UserIdOf(author)>>]

LocalUserManifest(author) ==
    [cls |-> "user", author |-> author, base_version |-> 0, need_sync |-> TRUE,
     is_placeholder |-> TRUE, children |-> NoChildren,
     last_processed_message |-> 0]

is_file_manifest(m) == m.cls = "file"
is_folder_manifest(m) == m.cls = "folder"
is_workspace_manifest(m) == m.cls = "workspace"
is_folderish_manifest(m) == m.cls \in {"folder", "workspace", "user"}

\* A child name mapped to NoAccess in the data of an evolve is removed.
NoAccess == -1

\* {k: v for k, v in {**self.children, **data}.items() if v is not None}
MergeChildren(children, data) ==
    LET merged == [n \in (DOMAIN children) \cup (DOMAIN data) |->
                     IF n \in DOMAIN data THEN data[n] ELSE children[n]]
        kept == {n \in DOMAIN merged : merged[n] # NoAccess}
    IN [n \in kept |-> merged[n]]

\* evolve_children_and_mark_updated starting the manifest over, as a new one.
evolve_children_and_mark_new(m, data) ==
    [m EXCEPT !.children = MergeChildren(m.children, data), !.need_sync = TRUE,
              !.is_placeholder = TRUE, !.base_version = 0]

\* LocalFolderManifest.evolve_children_and_mark_updated: need_sync is raised.
evolve_children_and_mark_updated(m, data) ==
    [m EXCEPT !.children = MergeChildren(m.children, data), !.need_sync = TRUE]

\* LocalFolderManifest.evolve_children: the flags are kept as they are.
evolve_children(m, data) ==
    [m EXCEPT !.children = MergeChildren(m.children, data)]

\* ------------------------------------------------------------ serialisation

\* TypedLocalManifestSchema.get_obj_type
ObjType(m) == CASE m.cls = "workspace" -> "local_workspace_manifest"
                [] m.cls = "user" -> "local_user_manifest"
                [] m.cls = "folder" -> "local_folder_manifest"
                [] m.cls = "file" -> "local_file_manifest"

\* local_manifest_serializer.dumps: the tagged, versioned envelope.
Dumps(m) ==
    LET head == [format |-> 1, type |-> ObjType(m), author |-> m.author,
                 base_version |-> m.base_version, need_sync |-> m.need_sync,
                 is_placeholder |-> m.is_placeholder]
    IN CASE m.cls = "file" ->
              head @@ [size |-> m.size, blocks |-> m.blocks,
                       dirty_blocks |-> m.dirty_blocks]
         [] m.cls = "folder" -> head @@ [children |-> m.children]
         [] m.cls = "workspace" ->
              head @@ [children |-> m.children, creator |-> m.creator,
                       participants |-> m.participants]
         [] m.cls = "user" ->
              head @@ [children |-> m.children,
                       last_processed_message |-> m.last_processed_message]

\* local_manifest_serializer.loads: dispatch on "type", make_obj drops the
\* "type" and "format" keys and builds the manifest of that variant.
Loads(raw) ==
    LET head == [author |-> raw.author, base_version |-> raw.base_version,
                 need_sync |-> raw.need_sync,
                 is_placeholder |-> raw.is_placeholder]
    IN CASE raw.type = "local_file_manifest" ->
              [cls |-> "file"] @@ head @@
              [size |-> raw.size, blocks |-> raw.blocks,
               dirty_blocks |-> raw.dirty_blocks]
         [] raw.type = "local_folder_manifest" ->
              [cls |-> "folder"] @@ head @@ [children |-> raw.children]
         [] raw.type = "local_workspace_manifest" ->
              [cls |-> "workspace"] @@ head @@
              [children |-> raw.children, creator |-> raw.creator,
               participants |-> raw.participants]
         [] raw.type = "local_user_manifest" ->
              [cls |-> "user"] @@ head @@
              [children |-> raw.children,
               last_processed_message |-> raw.last_processed_message]

\* ------------------------------------------------------------------- state

VARIABLES
    cache,    \* LocalFolderFS._manifests_cache: id -> manifest, or Absent
    db,       \* the local blob store: id -> serialised manifest, or Absent
    nextId,   \* the next fresh entry id ManifestAccess() returns
    calls,    \* number of calls made so far
    last,     \* the call that just ended (Idle between calls)
    pool,     \* the TransportPool: max, _lock, transports, _closed
    tasks     \* each task's place in TransportPool.acquire

vars == <<cache, db, nextId, calls, last, pool, tasks>>

\* No TransportPool is made: the local file system is on its own.
NoPool == << >>

Absent == [cls |-> "absent"]
Idle == [op |-> "idle"]

\* The running store an operation threads through its steps: the cache, the
\* LBS, the id supply, the log of set_manifest calls and events, the number
\* of LBS writes that still succeed (Unlimited: all of them) and the error a
\* failed LBS write raised.
Unlimited == -1

Store(c, d, n, budget) ==
    [cache |-> c, db |-> d, next |-> n, log |-> << >>, budget |-> budget,
     raised |-> FALSE]

Miss == [cls |-> "miss"]
NotFound == [cls |-> "entry_not_found"]
IsFailure(m) == m.cls \in {"miss", "entry_not_found"}

\* event_bus.send(name, id=id) and event_bus.send(name, path=path, id=id)
Send(s, name, id, path) ==
    IF s.raised THEN s
    ELSE [s EXCEPT !.log = Append(@, [k |-> "event", name |-> name, id |-> id,
                                      path |-> path])]

\* set_manifest writing the LBS and leaving the cache as it is.
set_manifest_past_cache(s, a, m) ==
    IF s.raised THEN s
    ELSE IF s.budget = 0 THEN [s EXCEPT !.raised = TRUE]
    ELSE [s EXCEPT !.db[a] = Dumps(m),
                   !.log = Append(@, [k |-> "set", name |-> "set_manifest",
                                      id |-> a, path |-> << >>]),
                   !.budget = IF @ = Unlimited THEN @ ELSE @ - 1]

\* LocalFolderFS.set_manifest: serialise, write the LBS, then the cache. An
\* LBS write that raises leaves the cache as it is and ends the operation.
set_manifest(s, a, m) ==
    IF s.raised THEN s
    ELSE IF s.budget = 0 THEN [s EXCEPT !.raised = TRUE]
    ELSE [s EXCEPT !.db[a] = Dumps(m), !.cache[a] = m,
                   !.log = Append(@, [k |-> "set", name |-> "set_manifest",
                                      id |-> a, path |-> << >>]),
                   !.budget = IF @ = Unlimited THEN @ ELSE @ - 1]

\* ManifestAccess(): a fresh entry id.
NewAccess(s) == [s |-> [s EXCEPT !.next = @ + 1], a |-> s.next]

\* ------------------------------------------------------------ manifest cache

\* The operators below are written so that the outcome of a read is handed on
\* as an argument (g, r, f, c: the store after the read and what was read).

RECURSIVE get_manifest_read_only(_, _)
RECURSIVE LoadedWorkspace(_, _, _)
RECURSIVE RecursiveSearch(_, _, _, _)
RECURSIVE SearchAt(_, _, _, _)
RECURSIVE SearchChildren(_, _, _, _, _)
RECURSIVE SearchNext(_, _, _, _, _)

\* _get_manifest_read_only faking a missing root as one in need of no sync.
get_manifest_read_only_faking_synced(s, a) ==
    IF s.cache[a] # Absent THEN [s |-> s, m |-> s.cache[a]]
    ELSE IF s.db[a] = Absent
    THEN IF a = RootId
         THEN [s |-> [s EXCEPT !.cache[a] =
                         [LocalUserManifest(LocalAuthor)
                            EXCEPT !.need_sync = FALSE]],
               m |-> [LocalUserManifest(LocalAuthor)
                        EXCEPT !.need_sync = FALSE]]
         ELSE [s |-> s, m |-> Miss]
    ELSE IF is_workspace_manifest(Loads(s.db[a]))
    THEN LoadedWorkspace(
             RecursiveSearch([s EXCEPT !.cache[a] = Loads(s.db[a])], RootId,
                             RootPath, a),
             a, Loads(s.db[a]))
    ELSE [s |-> [s EXCEPT !.cache[a] = Loads(s.db[a])], m |-> Loads(s.db[a])]

\* LocalFolderFS._get_manifest_read_only: the cache first, then the LBS; a
\* missing root is synthesised in version 0; a manifest read from the LBS is
\* cached, and a workspace manifest so loaded is announced with its path.
\* Result: the store after the read and the manifest, Miss
\* (FSManifestLocalMiss) or NotFound (FSEntryNotFound out of get_entry_path).
get_manifest_read_only(s, a) ==
    IF s.cache[a] # Absent THEN [s |-> s, m |-> s.cache[a]]
    ELSE IF s.db[a] = Absent
    THEN IF a = RootId
         THEN [s |-> [s EXCEPT !.cache[a] = LocalUserManifest(LocalAuthor)],
               m |-> LocalUserManifest(LocalAuthor)]
         ELSE [s |-> s, m |-> Miss]
    ELSE IF is_workspace_manifest(Loads(s.db[a]))
    THEN LoadedWorkspace(
             RecursiveSearch([s EXCEPT !.cache[a] = Loads(s.db[a])], RootId,
                             RootPath, a),
             a, Loads(s.db[a]))
    ELSE [s |-> [s EXCEPT !.cache[a] = Loads(s.db[a])], m |-> Loads(s.db[a])]

\* The end of _get_manifest_read_only for a workspace manifest m just loaded:
\* f is the outcome of get_entry_path's search for it.
LoadedWorkspace(f, a, m) ==
    IF f.found /\ ~f.lost
    THEN [s |-> Send(f.s, "fs.workspace.loaded", a, f.path), m |-> m]
    ELSE [s |-> f.s, m |-> NotFound]

\* get_entry_path's _recursive_search: depth-first from the root, reading
\* every manifest on the way through the cache; a locally missing manifest
\* ends that branch, an FSEntryNotFound raised by a nested load ends the
\* whole search (lost).
RecursiveSearch(s, a, path, target) ==
    SearchAt(get_manifest_read_only(s, a), a, path, target)

SearchAt(g, a, path, target) ==
    IF g.m = Miss
    THEN [s |-> g.s, found |-> FALSE, lost |-> FALSE, path |-> path]
    ELSE IF g.m = NotFound
    THEN [s |-> g.s, found |-> FALSE, lost |-> TRUE, path |-> path]
    ELSE IF a = target
    THEN [s |-> g.s, found |-> TRUE, lost |-> FALSE, path |-> path]
    ELSE IF is_folderish_manifest(g.m)
    THEN SearchChildren(g.s, g.m.children, ChildNames(g.m.children), path,
                        target)
    ELSE [s |-> g.s, found |-> FALSE, lost |-> FALSE, path |-> path]

SearchChildren(s, children, names, path, target) ==
    IF names = << >>
    THEN [s |-> s, found |-> FALSE, lost |-> FALSE, path |-> path]
    ELSE SearchNext(RecursiveSearch(s, children[Head(names)],
                                    Append(path, Head(names)), target),
                    children, names, path, target)

SearchNext(f, children, names, path, target) ==
    IF f.found \/ f.lost THEN f
    ELSE SearchChildren(f.s, children, Tail(names), path, target)

\* LocalFolderFS.get_manifest
get_manifest(s, a) == get_manifest_read_only(s, a)

\* LocalFolderFS.get_user_manifest
get_user_manifest(s) == get_manifest_read_only(s, RootId)

\* The outcome of reading a manifest that did not come back.
ReadError(m) == IF m = Miss THEN "MissLocal" ELSE "EntryNotFound"

\* ------------------------------------------------------------ path resolver

RECURSIVE Walk(_, _, _, _, _)
RECURSIVE WalkHop(_, _, _, _)

\* The hops of _retrieve_entry_read_only from segment i on, standing at the
\* folderish manifest m of access a.
Walk(s, path, i, a, m) ==
    IF i > Len(path) THEN [s |-> s, a |-> a, m |-> m, err |-> "ok"]
    ELSE IF path[i] \notin DOMAIN m.children
    THEN [s |-> s, a |-> a, m |-> m, err |-> "NoSuchEntry"]
    ELSE WalkHop(get_manifest_read_only(s, m.children[path[i]]), path, i,
                 m.children[path[i]])

\* WalkHop reporting a file met on the way as a missing entry.
WalkHopNoSuchEntry(g, path, i, child) ==
    IF IsFailure(g.m)
    THEN [s |-> g.s, a |-> child, m |-> g.m, err |-> ReadError(g.m)]
    ELSE IF i < Len(path) /\ ~is_folderish_manifest(g.m)
    THEN [s |-> g.s, a |-> child, m |-> g.m, err |-> "NoSuchEntry"]
    ELSE Walk(g.s, path, i + 1, child, g.m)

\* One hop: g is the read of the child's manifest.
WalkHop(g, path, i, child) ==
    IF IsFailure(g.m)
    THEN [s |-> g.s, a |-> child, m |-> g.m, err |-> ReadError(g.m)]
    ELSE IF i < Len(path) /\ ~is_folderish_manifest(g.m)
    THEN [s |-> g.s, a |-> child, m |-> g.m, err |-> "NotADirectory"]
    ELSE Walk(g.s, path, i + 1, child, g.m)

WalkFromRoot(g, path) == Walk(g.s, path, 1, RootId, g.m)

\* LocalFolderFS._retrieve_entry_read_only (and _retrieve_entry, which only
\* forwards to it): walk the path from the root manifest.
retrieve_entry(s, path) ==
    WalkFromRoot(get_manifest_read_only(s, RootId), path)

\* ------------------------------------------------------------------ mutator

\* What an operation hands back: the store it leaves and its outcome ("ok" or
\* the kind of the error raised).
Done(s, res) == [s |-> s, res |-> res]

\* The two manifest writes and the two events ending touch and mkdir; n is
\* the fresh access of the child.
CreateChild(n, access, manifest, name, child_manifest) ==
    Send(Send(set_manifest(
                  set_manifest(n.s, access,
                      evolve_children_and_mark_updated(manifest, name :> n.a)),
                  n.a, child_manifest),
              "fs.entry.updated", access, << >>),
         "fs.entry.updated", n.a, << >>)

\* CreateInParent giving an existing name to the new child.
CreateInParentOverwriting(r, path, child_manifest) ==
    IF r.err # "ok" THEN Done(r.s, r.err)
    ELSE IF ~is_folderish_manifest(r.m) THEN Done(r.s, "NotADirectory")
    ELSE Done(CreateChild(NewAccess(r.s), r.a, r.m, NameOf(path),
                          child_manifest),
              "ok")

\* touch and mkdir once the parent is resolved (r).
CreateInParent(r, path, child_manifest) ==
    IF r.err # "ok" THEN Done(r.s, r.err)
    ELSE IF ~is_folderish_manifest(r.m) THEN Done(r.s, "NotADirectory")
    ELSE IF NameOf(path) \in DOMAIN r.m.children THEN Done(r.s, "FileExists")
    ELSE Done(CreateChild(NewAccess(r.s), r.a, r.m, NameOf(path),
                          child_manifest),
              "ok")

\* CreateEntry without the refusal of a parent that is the root.
CreateEntryAnywhere(s, path, child_manifest) ==
    IF IsRoot(path) THEN Done(s, "FileExists")
    ELSE CreateInParent(retrieve_entry(s, Parent(path)), path, child_manifest)

\* The checks touch and mkdir share, then the creation of the child.
CreateEntry(s, path, child_manifest) ==
    IF IsRoot(path) THEN Done(s, "FileExists")
    ELSE IF IsRoot(Parent(path)) THEN Done(s, "PermissionDenied")
    ELSE CreateInParent(retrieve_entry(s, Parent(path)), path, child_manifest)

\* LocalFolderFS.touch
touch(s, path) ==
    CreateEntry(s, path, LocalFileManifest(LocalAuthor, 0, << >>, << >>))

\* LocalFolderFS.mkdir
mkdir(s, path) ==
    CreateEntry(s, path, LocalFolderManifest(LocalAuthor, NoChildren))

\* CreateWorkspace putting the workspace manifest in the cache alone.
CreateWorkspaceInCacheOnly(n, root_manifest, path) ==
    Send(Send(Send([set_manifest(n.s, RootId,
                        evolve_children_and_mark_updated(root_manifest,
                            NameOf(path) :> n.a))
                      EXCEPT !.cache[n.a] =
                                 LocalWorkspaceManifest(LocalAuthor, NoChildren)],
                   "fs.entry.updated", RootId, << >>),
              "fs.entry.updated", n.a, << >>),
         "fs.workspace.loaded", n.a, path)

\* The writes and events ending workspace_create; n is the fresh access.
CreateWorkspace(n, root_manifest, path) ==
    Send(Send(Send(set_manifest(
                       set_manifest(n.s, RootId,
                           evolve_children_and_mark_updated(root_manifest,
                               NameOf(path) :> n.a)),
                       n.a, LocalWorkspaceManifest(LocalAuthor, NoChildren)),
                   "fs.entry.updated", RootId, << >>),
              "fs.entry.updated", n.a, << >>),
         "fs.workspace.loaded", n.a, path)

\* workspace_create once the user manifest is read (g).
CreateInRoot(g, path) ==
    IF NameOf(path) \in DOMAIN g.m.children THEN Done(g.s, "FileExists")
    ELSE Done(CreateWorkspace(NewAccess(g.s), g.m, path), "ok")

\* LocalFolderFS.workspace_create
workspace_create(s, path) ==
    IF ~IsRoot(Parent(path)) THEN Done(s, "PermissionDenied")
    ELSE CreateInRoot(get_user_manifest(s), path)

\* workspace_rename once the user manifest is read (g): the workspace's
\* access moves from one name to the other.
RenameInRoot(g, src, dst) ==
    IF NameOf(dst) \in DOMAIN g.m.children THEN Done(g.s, "FileExists")
    ELSE IF NameOf(src) \notin DOMAIN g.m.children THEN Done(g.s, "KeyError")
    ELSE Done(Send(set_manifest(g.s, RootId,
                       evolve_children_and_mark_updated(g.m,
                           (NameOf(src) :> NoAccess)
                           @@ (NameOf(dst) :> g.m.children[NameOf(src)]))),
                   "fs.entry.updated", RootId, << >>),
              "ok")

\* workspace_rename once src is resolved (r).
RenameResolved(r, src, dst) ==
    IF r.err # "ok" THEN Done(r.s, r.err)
    ELSE IF ~is_workspace_manifest(r.m) THEN Done(r.s, "PermissionDenied")
    ELSE IF ~IsRoot(Parent(dst)) THEN Done(r.s, "PermissionDenied")
    ELSE RenameInRoot(get_user_manifest(r.s), src, dst)

\* LocalFolderFS.workspace_rename
workspace_rename(s, src, dst) ==
    RenameResolved(retrieve_entry(s, src), src, dst)

\* DeleteItem writing the parent back with the name still in it.
DeleteItemKeepingName(g, r, path, expect) ==
    IF IsFailure(g.m) THEN Done(g.s, ReadError(g.m))
    ELSE IF is_folderish_manifest(g.m) /\ expect = "file"
    THEN Done(g.s, "IsADirectory")
    ELSE IF is_folderish_manifest(g.m) /\ DOMAIN g.m.children # {}
    THEN Done(g.s, "DirectoryNotEmpty")
    ELSE IF ~is_folderish_manifest(g.m) /\ expect = "folder"
    THEN Done(g.s, "NotADirectory")
    ELSE Done(Send(set_manifest(g.s, r.a,
                       evolve_children_and_mark_updated(r.m, NoChildren)),
                   "fs.entry.updated", r.a, << >>),
              "ok")

\* _delete once the item's manifest is read (g): the kind checks, then the
\* name is taken out of the parent (access and manifest in r).
DeleteItem(g, r, path, expect) ==
    IF IsFailure(g.m) THEN Done(g.s, ReadError(g.m))
    ELSE IF is_folderish_manifest(g.m) /\ expect = "file"
    THEN Done(g.s, "IsADirectory")
    ELSE IF is_folderish_manifest(g.m) /\ DOMAIN g.m.children # {}
    THEN Done(g.s, "DirectoryNotEmpty")
    ELSE IF ~is_folderish_manifest(g.m) /\ expect = "folder"
    THEN Done(g.s, "NotADirectory")
    ELSE Done(Send(set_manifest(g.s, r.a,
                       evolve_children_and_mark_updated(r.m,
                           NameOf(path) :> NoAccess)),
                   "fs.entry.updated", r.a, << >>),
              "ok")

\* DeleteInParent taking the removal of an absent name for done.
DeleteInParentIgnoringAbsent(r, path, expect) ==
    IF r.err # "ok" THEN Done(r.s, r.err)
    ELSE IF ~is_folderish_manifest(r.m) THEN Done(r.s, "NotADirectory")
    ELSE IF NameOf(path) \notin DOMAIN r.m.children
    THEN Done(r.s, "ok")
    ELSE DeleteItem(get_manifest(r.s, r.m.children[NameOf(path)]), r, path,
                    expect)

\* _delete once the parent is resolved (r).
DeleteInParent(r, path, expect) ==
    IF r.err # "ok" THEN Done(r.s, r.err)
    ELSE IF ~is_folderish_manifest(r.m) THEN Done(r.s, "NotADirectory")
    ELSE IF NameOf(path) \notin DOMAIN r.m.children
    THEN Done(r.s, "NoSuchEntry")
    ELSE DeleteItem(get_manifest(r.s, r.m.children[NameOf(path)]), r, path,
                    expect)

\* LocalFolderFS._delete; expect is "any" (delete), "file" (unlink) or
\* "folder" (rmdir).
delete_entry(s, path, expect) ==
    IF IsRoot(path) THEN Done(s, "PermissionDenied")
    ELSE DeleteInParent(retrieve_entry(s, Parent(path)), path, expect)

\* ------------------------------------------------------------ move and copy

RECURSIVE recursive_create_copy_map(_, _, _)
RECURSIVE CopyMapOfFolder(_, _, _)
RECURSIVE CopyMapChildren(_, _, _, _, _)
RECURSIVE CopyMapChild(_, _, _, _, _)
RECURSIVE CopyMapNext(_, _, _, _, _)

\* _recursive_manifest_copy's _recursive_create_copy_map: read the whole
\* subtree, gathering every locally missing access (miss) instead of
\* stopping at the first one.
recursive_create_copy_map(s, access, manifest) ==
    IF is_folderish_manifest(manifest)
    THEN CopyMapOfFolder(CopyMapChildren(s, manifest.children,
                                         ChildNames(manifest.children),
                                         NoChildren, << >>),
                         access, manifest)
    ELSE [s |-> s, miss |-> << >>, lost |-> FALSE,
          map |-> [access |-> access, manifest |-> manifest]]

CopyMapOfFolder(c, access, manifest) ==
    [s |-> c.s, miss |-> c.miss, lost |-> c.lost,
     map |-> [access |-> access, manifest |-> manifest, children |-> c.maps]]

CopyMapChildren(s, children, names, maps, miss) ==
    IF names = << >>
    THEN [s |-> s, maps |-> maps, miss |-> miss, lost |-> FALSE]
    ELSE CopyMapChild(get_manifest_read_only(s, children[Head(names)]),
                      children, names, maps, miss)

\* CopyMapChild giving up at the first missing child.
CopyMapChildStopping(g, children, names, maps, miss) ==
    IF g.m = NotFound
    THEN [s |-> g.s, maps |-> maps, miss |-> miss, lost |-> TRUE]
    ELSE IF g.m = Miss
    THEN [s |-> g.s, maps |-> maps, lost |-> FALSE,
          miss |-> Append(miss, children[Head(names)])]
    ELSE CopyMapNext(recursive_create_copy_map(g.s, children[Head(names)],
                                               g.m),
                     children, names, maps, miss)

\* One child of the folder: g is the read of its manifest.
CopyMapChild(g, children, names, maps, miss) ==
    IF g.m = NotFound
    THEN [s |-> g.s, maps |-> maps, miss |-> miss, lost |-> TRUE]
    ELSE IF g.m = Miss
    THEN CopyMapChildren(g.s, children, Tail(names), maps,
                         Append(miss, children[Head(names)]))
    ELSE CopyMapNext(recursive_create_copy_map(g.s, children[Head(names)],
                                               g.m),
                     children, names, maps, miss)

\* c is the copy map of that child, or what is missing below it.
CopyMapNext(c, children, names, maps, miss) ==
    IF c.lost THEN [s |-> c.s, maps |-> maps, miss |-> miss, lost |-> TRUE]
    ELSE IF c.miss # << >>
    THEN CopyMapChildren(c.s, children, Tail(names), maps, miss \o c.miss)
    ELSE CopyMapChildren(c.s, children, Tail(names),
                         maps @@ (Head(names) :> c.map), miss)

RECURSIVE recursive_process_copy_map(_, _)
RECURSIVE ProcessNode(_, _)
RECURSIVE StoreFolderCopy(_, _, _)
RECURSIVE ProcessChildren(_, _, _, _)
RECURSIVE ProcessNext(_, _, _, _)

\* _recursive_manifest_copy's _recursive_process_copy_map: a fresh access for
\* the copy, the children copied first, then the copy stored.
recursive_process_copy_map(s, copy_map) == ProcessNode(NewAccess(s), copy_map)

\* ProcessNode storing the manifest of a file as its copy.
ProcessNodeAsIs(n, copy_map) ==
    IF is_file_manifest(copy_map.manifest)
    THEN [s |-> set_manifest(n.s, n.a, copy_map.manifest), a |-> n.a]
    ELSE StoreFolderCopy(
             ProcessChildren(n.s, copy_map.children,
                             ChildNames(copy_map.manifest.children),
                             NoChildren),
             n.a, copy_map.manifest)

\* n is the fresh access of the copy.
ProcessNode(n, copy_map) ==
    IF is_file_manifest(copy_map.manifest)
    THEN [s |-> set_manifest(n.s, n.a,
                    LocalFileManifest(LocalAuthor, copy_map.manifest.size,
                                      copy_map.manifest.blocks,
                                      copy_map.manifest.dirty_blocks)),
          a |-> n.a]
    ELSE StoreFolderCopy(
             ProcessChildren(n.s, copy_map.children,
                             ChildNames(copy_map.manifest.children),
                             NoChildren),
             n.a, copy_map.manifest)

\* StoreFolderCopy keeping the children of the original in the copy.
StoreFolderCopyShallow(c, cpy_access, manifest) ==
    [s |-> set_manifest(c.s, cpy_access,
                IF is_folder_manifest(manifest)
                THEN LocalFolderManifest(LocalAuthor, manifest.children)
                ELSE LocalWorkspaceManifest(LocalAuthor, manifest.children)),
     a |-> cpy_access]

\* c holds the copies of the children: the folder's copy is stored.
StoreFolderCopy(c, cpy_access, manifest) ==
    [s |-> set_manifest(c.s, cpy_access,
                IF is_folder_manifest(manifest)
                THEN LocalFolderManifest(LocalAuthor, c.children)
                ELSE LocalWorkspaceManifest(LocalAuthor, c.children)),
     a |-> cpy_access]

ProcessChildren(s, maps, names, cpy_children) ==
    IF names = << >> THEN [s |-> s, children |-> cpy_children]
    ELSE ProcessNext(recursive_process_copy_map(s, maps[Head(names)]), maps,
                     names, cpy_children)

\* ProcessNext leaving the copied child out of the copy's children.
ProcessNextDropped(r, maps, names, cpy_children) ==
    ProcessChildren(r.s, maps, Tail(names), cpy_children)

ProcessNext(r, maps, names, cpy_children) ==
    ProcessChildren(r.s, maps, Tail(names),
                    cpy_children @@ (Head(names) :> r.a))

\* The copy phase, given the outcome c of the presence check.
CopyFromMap(c) ==
    IF c.lost THEN [s |-> c.s, a |-> NoAccess, err |-> "EntryNotFound"]
    ELSE IF c.miss # << >>
    THEN [s |-> c.s, a |-> NoAccess, err |-> "MultiMissLocal"]
    ELSE recursive_process_copy_map(c.s, c.map) @@ [err |-> "ok"]

\* _recursive_manifest_copy handing back the access it was given instead of
\* a copy.
recursive_manifest_copy_kept_access(s, access, manifest) ==
    [s |-> s, a |-> access, err |-> "ok"]

\* LocalFolderFS._recursive_manifest_copy: the presence check, then the copy.
\* err is "ok", "MultiMissLocal" or "EntryNotFound"; a is the copy's access.
recursive_manifest_copy(s, access, manifest) ==
    CopyFromMap(recursive_create_copy_map(s, access, manifest))

\* ExistingDstCheck letting a folder replace a folder that is not empty.
ExistingDstCheckOfKindOnly(src_manifest, existing_dst_manifest) ==
    IF is_folderish_manifest(src_manifest)
    THEN IF is_file_manifest(existing_dst_manifest) THEN "NotADirectory"
         ELSE "ok"
    ELSE IF is_folderish_manifest(existing_dst_manifest) THEN "IsADirectory"
         ELSE "ok"

\* The checks of an existing destination in _copy; "ok" lets the copy go on.
ExistingDstCheck(src_manifest, existing_dst_manifest) ==
    IF is_folderish_manifest(src_manifest)
    THEN IF is_file_manifest(existing_dst_manifest) THEN "NotADirectory"
         ELSE IF DOMAIN existing_dst_manifest.children # {}
         THEN "DirectoryNotEmpty"
         ELSE "ok"
    ELSE IF is_folderish_manifest(existing_dst_manifest) THEN "IsADirectory"
         ELSE "ok"

\* _copy once the manifest at dst is read (e): the kind checks, then the
\* recursive copy of src.
CopyOverExisting(e, src_access, src_manifest) ==
    IF IsFailure(e.m)
    THEN [s |-> e.s, a |-> NoAccess, err |-> ReadError(e.m)]
    ELSE IF ExistingDstCheck(src_manifest, e.m) # "ok"
    THEN [s |-> e.s, a |-> NoAccess,
          err |-> ExistingDstCheck(src_manifest, e.m)]
    ELSE recursive_manifest_copy(e.s, src_access, src_manifest)

\* CopySource without the refusal of a workspace.
CopySourceOfAnyKind(g, src_access, dst, parent_dst_manifest) ==
    IF IsFailure(g.m)
    THEN [s |-> g.s, a |-> NoAccess, err |-> ReadError(g.m)]
    ELSE IF NameOf(dst) \in DOMAIN parent_dst_manifest.children
    THEN CopyOverExisting(
             get_manifest(g.s, parent_dst_manifest.children[NameOf(dst)]),
             src_access, g.m)
    ELSE recursive_manifest_copy(g.s, src_access, g.m)

\* _copy once src's manifest is read (g): no workspace is moved or copied.
CopySource(g, src_access, dst, parent_dst_manifest) ==
    IF IsFailure(g.m)
    THEN [s |-> g.s, a |-> NoAccess, err |-> ReadError(g.m)]
    ELSE IF is_workspace_manifest(g.m)
    THEN [s |-> g.s, a |-> NoAccess, err |-> "PermissionDenied"]
    ELSE IF NameOf(dst) \in DOMAIN parent_dst_manifest.children
    THEN CopyOverExisting(
             get_manifest(g.s, parent_dst_manifest.children[NameOf(dst)]),
             src_access, g.m)
    ELSE recursive_manifest_copy(g.s, src_access, g.m)

\* _copy from the lookup of src in its parent on: the part the same-parent
\* and the two-parents branches share.
\* Result: the store, the outcome and the access of the copy.
CopyChecks(s, src, dst, parent_src_manifest, parent_dst_manifest) ==
    IF NameOf(src) \notin DOMAIN parent_src_manifest.children
    THEN [s |-> s, a |-> NoAccess, err |-> "NoSuchEntry"]
    ELSE CopySource(get_manifest(s, parent_src_manifest.children[NameOf(src)]),
                    parent_src_manifest.children[NameOf(src)], dst,
                    parent_dst_manifest)

\* FinishSameParent writing and announcing the parent of a copy that failed.
FinishSameParentAnyway(c, p, src, dst, delete_src) ==
    IF c.err # "ok"
    THEN Done(Send(set_manifest(c.s, p.a, p.m), "fs.entry.updated", p.a,
                   << >>),
              c.err)
    ELSE Done(Send(set_manifest(c.s, p.a,
                       evolve_children(p.m,
                           IF delete_src
                           THEN (NameOf(src) :> NoAccess)
                                @@ (NameOf(dst) :> c.a)
                           ELSE NameOf(dst) :> c.a)),
                   "fs.entry.updated", p.a, << >>),
              "ok")

\* The end of _copy in the same-parent branch: one evolve_children of the
\* parent (access and manifest in p), one write, one event.
FinishSameParent(c, p, src, dst, delete_src) ==
    IF c.err # "ok" THEN Done(c.s, c.err)
    ELSE Done(Send(set_manifest(c.s, p.a,
                       evolve_children(p.m,
                           IF delete_src
                           THEN (NameOf(src) :> NoAccess)
                                @@ (NameOf(dst) :> c.a)
                           ELSE NameOf(dst) :> c.a)),
                   "fs.entry.updated", p.a, << >>),
              "ok")

\* The same-parent branch once the parent is resolved (p).
CopyInParent(p, src, dst, delete_src) ==
    IF p.err # "ok" THEN Done(p.s, p.err)
    ELSE IF ~is_folderish_manifest(p.m) THEN Done(p.s, "NotADirectory")
    ELSE IF RelativeTo(dst, src) THEN Done(p.s, "InvalidArgument")
    ELSE FinishSameParent(CopyChecks(p.s, src, dst, p.m, p.m), p, src, dst,
                          delete_src)

\* _copy when src and dst have the same parent.
CopySameParent(s, src, dst, delete_src) ==
    CopyInParent(retrieve_entry(s, Parent(src)), src, dst, delete_src)

\* dst's parent is written and announced.
WriteParentDst(c, pd, dst) ==
    Send(set_manifest(c.s, pd.a,
             evolve_children_and_mark_updated(pd.m, NameOf(dst) :> c.a)),
         "fs.entry.updated", pd.a, << >>)

\* WriteParentSrc leaving the name of src in its parent.
WriteParentSrcKeepingName(s, ps, src) ==
    Send(set_manifest(s, ps.a, evolve_children_and_mark_updated(ps.m, NoChildren)),
         "fs.entry.updated", ps.a, << >>)

\* src's parent is written and announced.
WriteParentSrc(s, ps, src) ==
    Send(set_manifest(s, ps.a,
             evolve_children_and_mark_updated(ps.m, NameOf(src) :> NoAccess)),
         "fs.entry.updated", ps.a, << >>)

\* FinishTwoParents ending a move as it ends a copy.
FinishTwoParentsDstOnly(c, ps, pd, src, dst, delete_src) ==
    IF c.err # "ok" THEN Done(c.s, c.err)
    ELSE Done(WriteParentDst(c, pd, dst), "ok")

\* The end of _copy in the two-parents branch: dst's parent is written and
\* announced, then, for a move, src's parent.
FinishTwoParents(c, ps, pd, src, dst, delete_src) ==
    IF c.err # "ok" THEN Done(c.s, c.err)
    ELSE IF delete_src
    THEN Done(WriteParentSrc(WriteParentDst(c, pd, dst), ps, src), "ok")
    ELSE Done(WriteParentDst(c, pd, dst), "ok")

\* CopyBetweenParents without the test of dst against src.
CopyBetweenParentsUnchecked(pd, ps, src, dst, delete_src) ==
    IF pd.err # "ok" THEN Done(pd.s, pd.err)
    ELSE IF ~is_folderish_manifest(pd.m) THEN Done(pd.s, "NotADirectory")
    ELSE FinishTwoParents(CopyChecks(pd.s, src, dst, ps.m, pd.m), ps, pd, src,
                          dst, delete_src)

\* The two-parents branch once both parents are resolved (ps, pd).
CopyBetweenParents(pd, ps, src, dst, delete_src) ==
    IF pd.err # "ok" THEN Done(pd.s, pd.err)
    ELSE IF ~is_folderish_manifest(pd.m) THEN Done(pd.s, "NotADirectory")
    ELSE IF RelativeTo(dst, src) THEN Done(pd.s, "InvalidArgument")
    ELSE FinishTwoParents(CopyChecks(pd.s, src, dst, ps.m, pd.m), ps, pd, src,
                          dst, delete_src)

\* The two-parents branch once src's parent is resolved (ps).
CopyFromParent(ps, src, dst, delete_src) ==
    IF ps.err # "ok" THEN Done(ps.s, ps.err)
    ELSE IF ~is_folderish_manifest(ps.m) THEN Done(ps.s, "NotADirectory")
    ELSE CopyBetweenParents(retrieve_entry(ps.s, Parent(dst)), ps, src, dst,
                            delete_src)

\* _copy when the parents differ.
CopyTwoParents(s, src, dst, delete_src) ==
    CopyFromParent(retrieve_entry(s, Parent(src)), src, dst, delete_src)

\* r is the resolution of the other path's parent: the call is refused.
RefuseRoot(r) ==
    IF r.err # "ok" THEN Done(r.s, r.err)
    ELSE IF ~is_folderish_manifest(r.m) THEN Done(r.s, "NotADirectory")
    ELSE Done(r.s, "PermissionDenied")

\* CopyRoot refusing at once, the other path's parent left unresolved.
CopyRootUnresolved(s, other) == Done(s, "PermissionDenied")

\* The first lines of _copy when src or dst is the root: the other path's
\* parent is resolved, and the call is refused.
CopyRoot(s, other) == RefuseRoot(retrieve_entry(s, Parent(other)))

\* r is the resolution of src.
\* OntoItself letting a workspace through.
OntoItselfOfAnyKind(r) ==
    IF r.err # "ok" THEN Done(r.s, r.err)
    ELSE Done(r.s, "ok")

OntoItself(r) ==
    IF r.err # "ok" THEN Done(r.s, r.err)
    ELSE IF is_workspace_manifest(r.m) THEN Done(r.s, "PermissionDenied")
    ELSE Done(r.s, "ok")

\* _copy when src = dst: src must exist and be no workspace; nothing is done.
CopyOntoItself(s, src) == OntoItself(retrieve_entry(s, src))

\* LocalFolderFS._copy (move: delete_src = TRUE, copy: delete_src = FALSE)
copy_entry(s, src, dst, delete_src) ==
    IF IsRoot(src) THEN CopyRoot(s, dst)
    ELSE IF IsRoot(dst) THEN CopyRoot(s, src)
    ELSE IF src = dst THEN CopyOntoItself(s, src)
    ELSE IF Parent(src) = Parent(dst)
    THEN CopySameParent(s, src, dst, delete_src)
    ELSE IF IsRoot(Parent(dst)) THEN Done(s, "PermissionDenied")
    ELSE CopyTwoParents(s, src, dst, delete_src)

\* ------------------------------------------------------------------ actions

\* LocalFolderFS.__init__ over an empty local store.
Init ==
    /\ cache = [a \in Ids |-> Absent]
    /\ db = [a \in Ids |-> Absent]
    /\ nextId = 1
    /\ calls = 0
    /\ pool = NoPool
    /\ tasks = NoPool
    /\ last = Idle

\* The store a call starts from; every LBS write succeeds.
Begin == Store(cache, db, nextId, Unlimited)

\* The call ends: its effects become the state, its outcome is recorded. A
\* call that would draw more fresh ids than the model holds is not taken.
Commit(op, src, dst, result) ==
    \E r \in {result} :
       /\ r.s.next <= MaxIds + 1
       /\ cache' = r.s.cache
       /\ db' = r.s.db
       /\ nextId' = r.s.next
       /\ last' = [op |-> op, src |-> src, dst |-> dst,
                   res |-> IF r.s.raised THEN "LBSError" ELSE r.res,
                   log |-> r.s.log]
       /\ calls' = calls + 1
       /\ UNCHANGED <<pool, tasks>>

\* A call starts only when the previous one has returned.
CanCall == last = Idle /\ calls < MaxCalls

Touch ==
    /\ CanCall
    /\ \E path \in Paths : Commit("touch", path, path, touch(Begin, path))

Mkdir ==
    /\ CanCall
    /\ \E path \in Paths : Commit("mkdir", path, path, mkdir(Begin, path))

WorkspaceCreate ==
    /\ CanCall
    /\ \E path \in Paths :
         Commit("workspace_create", path, path, workspace_create(Begin, path))

WorkspaceRename ==
    /\ CanCall
    /\ \E src \in Paths, dst \in Paths :
         Commit("workspace_rename", src, dst, workspace_rename(Begin, src, dst))

\* LocalFolderFS.delete
Delete ==
    /\ CanCall
    /\ \E path \in Paths :
         Commit("delete", path, path, delete_entry(Begin, path, "any"))

\* LocalFolderFS.unlink
Unlink ==
    /\ CanCall
    /\ \E path \in Paths :
         Commit("unlink", path, path, delete_entry(Begin, path, "file"))

\* LocalFolderFS.rmdir
Rmdir ==
    /\ CanCall
    /\ \E path \in Paths :
         Commit("rmdir", path, path, delete_entry(Begin, path, "folder"))

\* LocalFolderFS.move
Move ==
    /\ CanCall
    /\ \E src \in Paths, dst \in Paths :
         Commit("move", src, dst, copy_entry(Begin, src, dst, TRUE))

\* LocalFolderFS.copy
Copy ==
    /\ CanCall
    /\ \E src \in Paths, dst \in Paths :
         Commit("copy", src, dst, copy_entry(Begin, src, dst, FALSE))

\* The manifest the sync engine stores after a successful upload of m: the
\* next version, no longer a placeholder, nothing left to sync.
Synced(m) ==
    [m EXCEPT !.base_version = @ + 1, !.is_placeholder = FALSE,
              !.need_sync = FALSE]

\* The sync engine stores a manifest back as synced, through set_manifest.
SyncStore ==
    /\ CanCall
    /\ \E a \in Ids :
         \E g \in {get_manifest(Begin, a)} :
            /\ ~IsFailure(g.m)
            /\ g.m.need_sync
            /\ Commit("set_manifest", << >>, << >>,
                      Done(set_manifest(g.s, a, Synced(g.m)), "ok"))

\* The call returns to its caller; the next call may start.
Return ==
    /\ last # Idle
    /\ last' = Idle
    /\ UNCHANGED <<cache, db, nextId, calls, pool, tasks>>

Next ==
    \/ Touch
    \/ Mkdir
    \/ WorkspaceCreate
    \/ WorkspaceRename
    \/ Delete
    \/ Unlink
    \/ Rmdir
    \/ Move
    \/ Copy
    \/ Return

Spec == Init /\ [][Next]_vars

\* The mutator calls together with the sync engine storing manifests back.
NextSync == Next \/ SyncStore

SpecSync == Init /\ [][NextSync]_vars

\* Every mutator call on the store b, with its arguments and what it does.
MutatorCalls(b) ==
    {[op |-> "touch", src |-> p, dst |-> p, r |-> touch(b, p)] : p \in Paths}
    \cup {[op |-> "mkdir", src |-> p, dst |-> p, r |-> mkdir(b, p)] :
             p \in Paths}
    \cup {[op |-> "workspace_create", src |-> p, dst |-> p,
           r |-> workspace_create(b, p)] : p \in Paths}
    \cup {[op |-> "workspace_rename", src |-> pp[1], dst |-> pp[2],
           r |-> workspace_rename(b, pp[1], pp[2])] : pp \in Paths \X Paths}
    \cup {[op |-> "delete", src |-> p, dst |-> p,
           r |-> delete_entry(b, p, "any")] : p \in Paths}
    \cup {[op |-> "move", src |-> pp[1], dst |-> pp[2],
           r |-> copy_entry(b, pp[1], pp[2], TRUE)] : pp \in Paths \X Paths}
    \cup {[op |-> "copy", src |-> pp[1], dst |-> pp[2],
           r |-> copy_entry(b, pp[1], pp[2], FALSE)] : pp \in Paths \X Paths}

\* A mutator call during which an LBS write raises: the writes before it have
\* been made, the call ends there.
Interrupted ==
    /\ CanCall
    /\ \E k \in 0..(MaxWrites - 1) :
         \E c \in MutatorCalls(Store(cache, db, nextId, k)) :
            /\ c.r.s.raised
            /\ Commit(c.op, c.src, c.dst, c.r)

NextInterrupt == Next \/ Interrupted

SpecInterrupt == Init /\ [][NextInterrupt]_vars

\* ------------------------------------------------- store, reads and restart

\* mark_outdated_manifest forgetting to drop the cached manifest.
mark_outdated_manifest_in_lbs_only(s, a) ==
    [s EXCEPT !.db[a] = Absent]

\* LocalFolderFS.mark_outdated_manifest: the entry leaves the LBS and the
\* cache.
mark_outdated_manifest(s, a) ==
    [s EXCEPT !.db[a] = Absent, !.cache[a] = Absent]

\* list(sorted(manifest.children.keys()))
SortedNames(children) ==
    SelectSeq(<<"", "a", "b">>, LAMBDA n : n \in DOMAIN children)

\* The dictionary LocalFolderFS.stat builds from the manifest a path
\* resolved to (created and updated left out).
StatOf(m, path) ==
    IF is_file_manifest(m)
    THEN [type |-> "file", is_folder |-> FALSE,
          base_version |-> m.base_version,
          is_placeholder |-> m.is_placeholder, need_sync |-> m.need_sync,
          size |-> m.size]
    ELSE IF is_workspace_manifest(m)
    THEN [type |-> "workspace", is_folder |-> TRUE,
          base_version |-> m.base_version,
          is_placeholder |-> m.is_placeholder, need_sync |-> m.need_sync,
          children |-> SortedNames(m.children), creator |-> m.creator,
          participants |-> m.participants]
    ELSE [type |-> IF IsRoot(path) THEN "root" ELSE "folder",
          is_folder |-> TRUE, base_version |-> m.base_version,
          is_placeholder |-> m.is_placeholder, need_sync |-> m.need_sync,
          children |-> SortedNames(m.children)]

\* stat once the path is resolved (r).
StatResolved(r, path) ==
    IF r.err # "ok" THEN [s |-> r.s, res |-> r.err, out |-> << >>]
    ELSE [s |-> r.s, res |-> "ok", out |-> StatOf(r.m, path)]

\* LocalFolderFS.stat
stat(s, path) == StatResolved(retrieve_entry(s, path), path)

\* BeaconResolved without the assertion: any entry's id is a beacon.
BeaconResolvedUnasserted(r) ==
    IF r.err # "ok" THEN [s |-> r.s, res |-> r.err, out |-> NoAccess]
    ELSE [s |-> r.s, res |-> "ok", out |-> r.a]

\* get_beacon once the workspace's path is resolved (r).
BeaconResolved(r) ==
    IF r.err # "ok" THEN [s |-> r.s, res |-> r.err, out |-> NoAccess]
    ELSE IF ~is_workspace_manifest(r.m)
    THEN [s |-> r.s, res |-> "AssertionError", out |-> NoAccess]
    ELSE [s |-> r.s, res |-> "ok", out |-> r.a]

\* get_beacon resolving the whole path instead of its first segment.
get_beacon_of_entry(s, path) ==
    IF Len(path) = 0 THEN [s |-> s, res |-> "ok", out |-> RootId]
    ELSE BeaconResolved(retrieve_entry(s, path))

\* LocalFolderFS.get_beacon: the root's id for the root path, the id of the
\* workspace the path starts with otherwise.
get_beacon(s, path) ==
    IF Len(path) = 0 THEN [s |-> s, res |-> "ok", out |-> RootId]
    ELSE BeaconResolved(retrieve_entry(s, <<path[1]>>))

RECURSIVE BeaconsOfChildren(_, _, _, _)

\* BeaconsNext letting the local miss of a child out.
BeaconsNextUnskipped(g, children, names, beacons) ==
    IF IsFailure(g.m)
    THEN [s |-> g.s, res |-> ReadError(g.m), out |-> << >>]
    ELSE BeaconsOfChildren(
             g.s, children, Tail(names),
             IF is_workspace_manifest(g.m)
             THEN Append(beacons, children[Head(names)]) ELSE beacons)

\* One turn of get_local_beacons' loop: g is the read of the child's
\* manifest; a local miss is skipped, a workspace's id is appended.
BeaconsNext(g, children, names, beacons) ==
    IF g.m = NotFound
    THEN [s |-> g.s, res |-> ReadError(g.m), out |-> << >>]
    ELSE BeaconsOfChildren(
             g.s, children, Tail(names),
             IF ~IsFailure(g.m) /\ is_workspace_manifest(g.m)
             THEN Append(beacons, children[Head(names)]) ELSE beacons)

\* for child_access in root_manifest.children.values()
BeaconsOfChildren(s, children, names, beacons) ==
    IF names = << >> THEN [s |-> s, res |-> "ok", out |-> beacons]
    ELSE BeaconsNext(get_manifest_read_only(s, children[Head(names)]),
                     children, names, beacons)

\* BeaconsOfRoot storing the root manifest it has read.
BeaconsOfRootStoring(g) ==
    IF g.m = Miss THEN [s |-> g.s, res |-> "AssertionError", out |-> << >>]
    ELSE IF g.m = NotFound
    THEN [s |-> g.s, res |-> ReadError(g.m), out |-> << >>]
    ELSE BeaconsOfChildren(set_manifest(g.s, RootId, g.m), g.m.children,
                           ChildNames(g.m.children), <<RootId>>)

\* get_local_beacons once the root's manifest is read (g).
BeaconsOfRoot(g) ==
    IF g.m = Miss THEN [s |-> g.s, res |-> "AssertionError", out |-> << >>]
    ELSE IF g.m = NotFound
    THEN [s |-> g.s, res |-> ReadError(g.m), out |-> << >>]
    ELSE BeaconsOfChildren(g.s, g.m.children, ChildNames(g.m.children),
                           <<RootId>>)

\* LocalFolderFS.get_local_beacons
get_local_beacons(s) == BeaconsOfRoot(get_manifest_read_only(s, RootId))

RECURSIVE WrapPlan(_, _, _)
RECURSIVE SyncScan(_, _, _, _)

\* get_sync_strategy's second loop: from the path up (walk_from_path), one
\* single-name map around the plan per path met before sync_path.
WrapPlan(path, sync_path, plan) ==
    IF path = sync_path \/ IsRoot(path) THEN plan
    ELSE WrapPlan(Parent(path), sync_path, NameOf(path) :> plan)

\* SyncScanAt taking the placeholder itself for sync_path.
SyncScanAtPlaceholder(r, path, i, plan) ==
    IF r.err # "ok" THEN [s |-> r.s, res |-> r.err, out |-> << >>]
    ELSE IF r.m.is_placeholder
    THEN [s |-> r.s, res |-> "ok",
          out |-> [sync_path |-> SubSeq(path, 1, i),
                   plan |-> WrapPlan(path, SubSeq(path, 1, i), plan)]]
    ELSE IF i = Len(path)
    THEN [s |-> r.s, res |-> "ok", out |-> [sync_path |-> path, plan |-> plan]]
    ELSE SyncScan(r.s, path, i + 1, plan)

\* One turn of get_sync_strategy's first loop: r is the resolution of the
\* first i names of the path; at the first placeholder, sync_path is the
\* parent of that prefix.
SyncScanAt(r, path, i, plan) ==
    IF r.err # "ok" THEN [s |-> r.s, res |-> r.err, out |-> << >>]
    ELSE IF r.m.is_placeholder
    THEN [s |-> r.s, res |-> "ok",
          out |-> [sync_path |-> Parent(SubSeq(path, 1, i)),
                   plan |-> WrapPlan(path, Parent(SubSeq(path, 1, i)), plan)]]
    ELSE IF i = Len(path)
    THEN [s |-> r.s, res |-> "ok", out |-> [sync_path |-> path, plan |-> plan]]
    ELSE SyncScan(r.s, path, i + 1, plan)

\* for curr_path in path.walk_to_path(): the root first, then each prefix.
SyncScan(s, path, i, plan) ==
    SyncScanAt(retrieve_entry(s, SubSeq(path, 1, i)), path, i, plan)

\* LocalFolderFS.get_sync_strategy
get_sync_strategy(s, path, plan) == SyncScan(s, path, 0, plan)

\* The recursive plans handed to get_sync_strategy: nothing below, or one
\* name below.
Plans == {<< >>, "a" :> << >>}

\* get_manifest as a call: the manifest, or the error raised.
GetManifestCall(g) ==
    [s |-> g.s, res |-> IF IsFailure(g.m) THEN ReadError(g.m) ELSE "ok",
     out |-> g.m]

\* The manifests handed to set_manifest from outside the mutators: new
\* entries of each kind and the synced form of what a holds.
GivenManifests(a) ==
    {LocalFileManifest(LocalAuthor, 0, << >>, << >>),
     LocalFolderManifest(LocalAuthor, NoChildren),
     LocalWorkspaceManifest(LocalAuthor, NoChildren)}
    \cup (IF cache[a] # Absent THEN {Synced(cache[a])} ELSE {})

\* The end of a call that hands something back (out).
CommitRead(op, access, path, given, r) ==
    /\ cache' = r.s.cache
    /\ db' = r.s.db
    /\ nextId' = IF access = nextId THEN nextId + 1 ELSE nextId
    /\ last' = [op |-> op, src |-> path, dst |-> path, access |-> access,
                given |-> given, res |-> r.res, out |-> r.out,
                log |-> r.s.log]
    /\ calls' = calls + 1
    /\ UNCHANGED <<pool, tasks>>

\* LocalFolderFS.set_manifest called with an access the store knows, or with
\* the next id not yet drawn.
SetManifest ==
    /\ CanCall
    /\ \E a \in (0..nextId) \cap Ids : \E m \in GivenManifests(a) :
          /\ (a = RootId) = (m.cls = "user")
          /\ CommitRead("set_manifest", a, << >>, m,
                        [s |-> set_manifest(Begin, a, m), res |-> "ok",
                         out |-> << >>])

\* LocalFolderFS.mark_outdated_manifest
MarkOutdated ==
    /\ CanCall
    /\ \E a \in 0..(nextId - 1) :
          CommitRead("mark_outdated_manifest", a, << >>, << >>,
                     [s |-> mark_outdated_manifest(Begin, a), res |-> "ok",
                      out |-> << >>])

\* The process ends and a new LocalFolderFS is built over the same local
\* store: the cache starts empty.
Restart ==
    /\ CanCall
    /\ cache # [a \in Ids |-> Absent]
    /\ CommitRead("restart", NoAccess, << >>, << >>,
                  [s |-> Store([a \in Ids |-> Absent], db, nextId, Unlimited),
                   res |-> "ok", out |-> << >>])

\* LocalFolderFS.get_manifest
GetManifest ==
    /\ CanCall
    /\ \E a \in 0..(nextId - 1) :
          CommitRead("get_manifest", a, << >>, << >>,
                     GetManifestCall(get_manifest(Begin, a)))

\* LocalFolderFS.stat
Stat ==
    /\ CanCall
    /\ \E path \in Paths :
          CommitRead("stat", NoAccess, path, << >>, stat(Begin, path))

\* get_entry as a call: the access and the manifest, or the error raised.
GetEntryCall(r) ==
    [s |-> r.s, res |-> r.err,
     out |-> IF r.err = "ok" THEN [a |-> r.a, m |-> r.m] ELSE << >>]

\* LocalFolderFS.get_entry
GetEntry ==
    /\ CanCall
    /\ \E path \in Paths :
          CommitRead("get_entry", NoAccess, path, << >>,
                     GetEntryCall(retrieve_entry(Begin, path)))

\* LocalFolderFS.get_beacon
GetBeacon ==
    /\ CanCall
    /\ \E path \in Paths :
          CommitRead("get_beacon", NoAccess, path, << >>,
                     get_beacon(Begin, path))

\* LocalFolderFS.get_sync_strategy
GetSyncStrategy ==
    /\ CanCall
    /\ \E path \in Paths : \E plan \in Plans :
          CommitRead("get_sync_strategy", NoAccess, path, plan,
                     get_sync_strategy(Begin, path, plan))

\* LocalFolderFS.get_local_beacons
GetLocalBeacons ==
    /\ CanCall
    /\ CommitRead("get_local_beacons", NoAccess, << >>, << >>,
                  get_local_beacons(Begin))

\* Paths one name deeper than the tree can be: below a file at the deepest
\* level.
DeepPaths == UNION {[1..n -> Names] : n \in 0..(MaxDepth + 1)}

\* LocalFolderFS.touch, paths below files included
TouchDeep ==
    /\ CanCall
    /\ \E path \in DeepPaths : Commit("touch", path, path, touch(Begin, path))

\* LocalFolderFS.mkdir, paths below files included
MkdirDeep ==
    /\ CanCall
    /\ \E path \in DeepPaths : Commit("mkdir", path, path, mkdir(Begin, path))

\* The creations, at every depth.
NextCreate ==
    \/ WorkspaceCreate
    \/ TouchDeep
    \/ MkdirDeep
    \/ Return

SpecCreate == Init /\ [][NextCreate]_vars

\* LocalFolderFS.get_access: the access _retrieve_entry_read_only ends on.
GetAccessCall(r) ==
    [s |-> r.s, res |-> r.err, out |-> IF r.err = "ok" THEN r.a ELSE NoAccess]

GetAccess ==
    /\ CanCall
    /\ \E path \in Paths :
          CommitRead("get_access", NoAccess, path, << >>,
                     GetAccessCall(retrieve_entry(Begin, path)))

RECURSIVE recursive_dump(_, _)
RECURSIVE DumpAt(_, _)
RECURSIVE DumpChildren(_, _, _, _, _)
RECURSIVE DumpNext(_, _, _, _, _)

\* dump's _recursive_dump: the access alone when the manifest is missing
\* locally, else the access with the manifest, the children of a folder
\* replaced by their own dumps.
recursive_dump(s, access) == DumpAt(get_manifest(s, access), access)

\* g is the read of the manifest of access.
DumpAt(g, access) ==
    IF g.m = NotFound THEN [s |-> g.s, res |-> ReadError(g.m), out |-> << >>]
    ELSE IF g.m = Miss
    THEN [s |-> g.s, res |-> "ok", out |-> [access |-> access]]
    ELSE IF is_folderish_manifest(g.m)
    THEN DumpChildren(g.s, access, g.m, ChildNames(g.m.children), << >>)
    ELSE [s |-> g.s, res |-> "ok",
          out |-> [access |-> access, manifest |-> g.m]]

\* dumps holds, name by name, the dumps of the children done so far.
DumpChildren(s, access, manifest, names, dumps) ==
    IF names = << >>
    THEN [s |-> s, res |-> "ok",
          out |-> [access |-> access, manifest |-> manifest,
                   children |-> dumps]]
    ELSE DumpNext(recursive_dump(s, manifest.children[Head(names)]), access,
                  manifest, names, dumps)

\* r is the dump of the child named Head(names).
DumpNext(r, access, manifest, names, dumps) ==
    IF r.res # "ok" THEN r
    ELSE DumpChildren(r.s, access, manifest, Tail(names),
                      Append(dumps, [name |-> Head(names), dump |-> r.out]))

\* LocalFolderFS.dump
dump(s) == recursive_dump(s, RootId)

Dump ==
    /\ CanCall
    /\ CommitRead("dump", NoAccess, << >>, << >>, dump(Begin))

\* The store and its readers, with the mutators that build a tree.
NextStore ==
    \/ WorkspaceCreate
    \/ Mkdir
    \/ Touch
    \/ Delete
    \/ SetManifest
    \/ MarkOutdated
    \/ Restart
    \/ GetManifest
    \/ Stat
    \/ GetEntry
    \/ GetBeacon
    \/ GetLocalBeacons
    \/ GetSyncStrategy
    \/ GetAccess
    \/ Dump
    \/ Return

SpecStore == Init /\ [][NextStore]_vars

\* ------------------------------------------------- local and remote manifests

\* remote_manifests.FileManifest, FolderManifest, WorkspaceManifest and
\* UserManifest (time stamps left out, as in the local manifests).
FileManifest(author, version, size, blocks) ==
    [cls |-> "file", author |-> author, version |-> version, size |-> size,
     blocks |-> blocks]

FolderManifest(author, version, children) ==
    [cls |-> "folder", author |-> author, version |-> version,
     children |-> children]

WorkspaceManifest(author, version, children, creator, participants) ==
    [cls |-> "workspace", author |-> author, version |-> version,
     children |-> children, creator |-> creator,
     participants |-> participants]

UserManifest(author, version, children, last_processed_message) ==
    [cls |-> "user", author |-> author, version |-> version,
     children |-> children,
     last_processed_message |-> last_processed_message]

\* LocalWorkspaceManifest built with every attribute given:
\* __attrs_post_init__ fills participants left empty with the creator.
LocalWorkspaceManifestOf(author, v, sync, holder, children, creator, participants) ==
    [cls |-> "workspace", author |-> author, base_version |-> v,
     need_sync |-> sync, is_placeholder |-> holder,
     children |-> children, creator |-> creator,
     participants |-> IF participants = << >> THEN <<creator>>
                      ELSE participants]

\* LocalFileManifest.to_remote, LocalFolderManifest.to_remote,
\* LocalWorkspaceManifest.to_remote, LocalUserManifest.to_remote
to_remote(m) ==
    CASE m.cls = "file" ->
           FileManifest(m.author, m.base_version, m.size, m.blocks)
      [] m.cls = "folder" ->
           FolderManifest(m.author, m.base_version, m.children)
      [] m.cls = "workspace" ->
           WorkspaceManifest(m.author, m.base_version, m.children, m.creator,
                             m.participants)
      [] m.cls = "user" ->
           UserManifest(m.author, m.base_version, m.children,
                        m.last_processed_message)

\* to_local leaving need_sync at the default of the local manifests.
to_local_needing_sync(r) ==
    CASE r.cls = "file" ->
           [LocalFileManifest(r.author, r.size, r.blocks, << >>)
              EXCEPT !.base_version = r.version, !.is_placeholder = FALSE]
      [] r.cls = "folder" ->
           [LocalFolderManifest(r.author, r.children)
              EXCEPT !.base_version = r.version, !.is_placeholder = FALSE]
      [] r.cls = "workspace" ->
           LocalWorkspaceManifestOf(r.author, r.version, TRUE, FALSE,
                                    r.children, r.creator, r.participants)
      [] r.cls = "user" ->
           [LocalUserManifest(r.author)
              EXCEPT !.base_version = r.version, !.is_placeholder = FALSE,
                     !.children = r.children,
                     !.last_processed_message = r.last_processed_message]

\* FileManifest.to_local, FolderManifest.to_local,
\* WorkspaceManifest.to_local, UserManifest.to_local: a synced local
\* manifest with no dirty block.
to_local(r) ==
    CASE r.cls = "file" ->
           [LocalFileManifest(r.author, r.size, r.blocks, << >>)
              EXCEPT !.base_version = r.version, !.is_placeholder = FALSE,
                     !.need_sync = FALSE]
      [] r.cls = "folder" ->
           [LocalFolderManifest(r.author, r.children)
              EXCEPT !.base_version = r.version, !.is_placeholder = FALSE,
                     !.need_sync = FALSE]
      [] r.cls = "workspace" ->
           LocalWorkspaceManifestOf(r.author, r.version, FALSE, FALSE,
                                    r.children, r.creator, r.participants)
      [] r.cls = "user" ->
           [LocalUserManifest(r.author)
              EXCEPT !.base_version = r.version, !.is_placeholder = FALSE,
                     !.need_sync = FALSE, !.children = r.children,
                     !.last_processed_message = r.last_processed_message]

\* The values the attributes of the converted manifests are drawn from.
Versions == {0, 1}
ChildrenGiven == {NoChildren, "a" :> 1}
BlocksGiven == {<< >>, <<1>>}
UsersGiven == {"alice", "bob"}
ParticipantsGiven == {<< >>, <<"alice">>, <<"alice", "bob">>}

\* Remote manifests of the four variants, as the schemas let them be loaded.
RemoteGiven ==
    {FileManifest(LocalAuthor, v, Len(b), b) :
        v \in Versions, b \in BlocksGiven}
    \cup {FolderManifest(LocalAuthor, v, c) :
        v \in Versions, c \in ChildrenGiven}
    \cup {WorkspaceManifest(LocalAuthor, v, c, u, p) :
        v \in Versions, c \in ChildrenGiven, u \in UsersGiven,
        p \in ParticipantsGiven}
    \cup {UserManifest(LocalAuthor, v, c, n) :
        v \in Versions, c \in ChildrenGiven, n \in {0, 1}}

\* Local manifests of the four variants, as their classes build them.
LocalGiven ==
    {[LocalFileManifest(LocalAuthor, Len(b), b, d)
        EXCEPT !.base_version = v, !.need_sync = n, !.is_placeholder = h] :
        b \in BlocksGiven, d \in BlocksGiven, v \in Versions,
        n \in BOOLEAN, h \in BOOLEAN}
    \cup {[LocalFolderManifest(LocalAuthor, c)
        EXCEPT !.base_version = v, !.need_sync = n, !.is_placeholder = h] :
        c \in ChildrenGiven, v \in Versions, n \in BOOLEAN, h \in BOOLEAN}
    \cup {LocalWorkspaceManifestOf(LocalAuthor, v, n, h, c, u, p) :
        v \in Versions, n \in BOOLEAN, h \in BOOLEAN, c \in ChildrenGiven,
        u \in UsersGiven, p \in ParticipantsGiven}
    \cup {[LocalUserManifest(LocalAuthor)
        EXCEPT !.base_version = v, !.need_sync = n, !.is_placeholder = h,
               !.children = c] :
        c \in ChildrenGiven, v \in Versions, n \in BOOLEAN, h \in BOOLEAN}

\* A manifest is at hand, remote or local, and no store is involved.
InitConvert ==
    /\ cache = [a \in Ids |-> Absent]
    /\ db = [a \in Ids |-> Absent]
    /\ nextId = 1
    /\ calls = 0
    /\ pool = NoPool
    /\ tasks = NoPool
    /\ last \in {[op |-> "remote", given |-> r, out |-> r] : r \in RemoteGiven}
               \cup {[op |-> "local", given |-> m, out |-> m] :
                        m \in LocalGiven}

\* remote.to_local()
ToLocal ==
    /\ last.op = "remote"
    /\ last' = [last EXCEPT !.op = "to_local", !.out = to_local(last.out)]
    /\ UNCHANGED <<cache, db, nextId, calls, pool, tasks>>

\* remote.to_local().to_remote()
ToLocalToRemote ==
    /\ last.op = "to_local"
    /\ last' = [last EXCEPT !.op = "to_local_to_remote",
                            !.out = to_remote(last.out)]
    /\ UNCHANGED <<cache, db, nextId, calls, pool, tasks>>

\* local.to_remote()
ToRemote ==
    /\ last.op = "local"
    /\ last' = [last EXCEPT !.op = "to_remote", !.out = to_remote(last.out)]
    /\ UNCHANGED <<cache, db, nextId, calls, pool, tasks>>

\* local.to_remote().to_local()
ToRemoteToLocal ==
    /\ last.op = "to_remote"
    /\ last' = [last EXCEPT !.op = "to_remote_to_local",
                            !.out = to_local(last.out)]
    /\ UNCHANGED <<cache, db, nextId, calls, pool, tasks>>

NextConvert == ToLocal \/ ToLocalToRemote \/ ToRemote \/ ToRemoteToLocal

SpecConvert == InitConvert /\ [][NextConvert]_vars

\* ------------------------------------------------------------ observations

\* The mutator operations of LocalFolderFS.
Mutators == {"touch", "mkdir", "workspace_create", "workspace_rename",
             "delete", "unlink", "rmdir", "move", "copy"}

\* LocalFolderFS.get_entry on the store made of the cache c and the LBS d:
\* the access and the manifest the path resolves to, or the error.
get_entry(c, d, path) == retrieve_entry(Store(c, d, RootId, Unlimited), path)

\* LocalFolderFS.get_manifest for every id of that store.
Manifests(c, d) ==
    [a \in Ids |-> get_manifest(Store(c, d, RootId, Unlimited), a).m]

\* The ids the folderish manifest of a, in the view v, maps its names to.
ChildIds(v, a) ==
    IF ~IsFailure(v[a]) /\ is_folderish_manifest(v[a])
    THEN {v[a].children[n] : n \in DOMAIN v[a].children}
    ELSE {}

RECURSIVE Below(_, _, _)
\* The ids reached from the ids S in at most n steps down the children.
Below(v, S, n) ==
    IF n = 0 THEN S
    ELSE Below(v, S \cup UNION {ChildIds(v, a) : a \in S}, n - 1)

\* The ids of the subtree under a, a included.
Subtree(v, a) == Below(v, {a}, MaxIds + 1)

\* The ids a view knows: those with a manifest and those a manifest names.
KnownIds(v) ==
    {RootId} \cup {a \in Ids : ~IsFailure(v[a])}
             \cup UNION {ChildIds(v, a) : a \in Ids}

\* dst lies strictly inside src.
Inside(dst, src) == RelativeTo(dst, src) /\ dst # src

\* The path resolves, in the store (c, d), to a folder, workspace or user
\* manifest.
ResolvesToFolder(c, d, path) ==
    /\ get_entry(c, d, path).err = "ok"
    /\ is_folderish_manifest(get_entry(c, d, path).m)

\* What the resolution of a parent path ends a call with when it does not
\* give a folderish manifest ("ok" when it does).
ParentError(c, d, path) ==
    IF get_entry(c, d, path).err # "ok" THEN get_entry(c, d, path).err
    ELSE IF ~is_folderish_manifest(get_entry(c, d, path).m)
    THEN "NotADirectory"
    ELSE "ok"

\* The call that just ended wrote no manifest.
NoManifestChanged == Manifests(cache', db') = Manifests(cache, db)

\* A move or a copy has just ended.
MoveOrCopyEnds == last = Idle /\ last'.op \in {"move", "copy"}

\* ------------------------------------------------------------------- claims

\* C1: after any sequence of mutator calls from the empty store, every direct
\* child of the root is a workspace manifest, and no manifest other than the
\* root's has a workspace among its children. (Stated of the store between
\* two calls: every store a call leaves is the store of the state it returns
\* to.)
C1_WorkspacesOnlyUnderRoot ==
    last = Idle
    => \A v \in {Manifests(cache, db)} :
          /\ \A a \in ChildIds(v, RootId) :
                ~IsFailure(v[a]) /\ is_workspace_manifest(v[a])
          /\ \A a \in Ids \ {RootId} :
                \A b \in ChildIds(v, a) : ~is_workspace_manifest(v[b])

\* Calls have returned that left two workspaces under the root, one of them
\* holding a folder that holds an entry.
C1_Witness ==
    /\ last = Idle
    /\ \E v \in {Manifests(cache, db)} :
          /\ Cardinality(ChildIds(v, RootId)) = 2
          /\ \E a \in ChildIds(v, RootId) :
                \E b \in ChildIds(v, a) : ChildIds(v, b) # {}

\* C2: after a successful move(src, dst) of a non-workspace with src # dst,
\* src no longer resolves (NoSuchEntry), dst resolves, and the access at dst,
\* like the access of every manifest of the moved subtree, is none of the
\* accesses that existed before the move (so not the one src had).
C2_MoveGivesFreshAccesses ==
    [][(last = Idle /\ last'.op = "move" /\ last'.res = "ok"
          /\ last'.src # last'.dst)
       => /\ get_entry(cache', db', last'.src).err = "NoSuchEntry"
          /\ get_entry(cache', db', last'.dst).err = "ok"
          /\ get_entry(cache', db', last'.dst).a
               # get_entry(cache, db, last'.src).a
          /\ Subtree(Manifests(cache', db'),
                     get_entry(cache', db', last'.dst).a)
               \cap KnownIds(Manifests(cache, db)) = {}]_vars

\* A folder holding an entry has been moved.
C2_Witness ==
    /\ last.op = "move"
    /\ last.res = "ok"
    /\ last.src # last.dst
    /\ Cardinality(Subtree(Manifests(cache, db),
                           get_entry(cache, db, last.dst).a)) = 2

\* C3: after a successful workspace_rename(src, dst), dst resolves to the
\* access src had, src no longer resolves, and the root manifest is the only
\* manifest written.
C3_RenameKeepsAccess ==
    [][(last = Idle /\ last'.op = "workspace_rename" /\ last'.res = "ok")
       => /\ get_entry(cache', db', last'.dst).err = "ok"
          /\ get_entry(cache', db', last'.dst).a
               = get_entry(cache, db, last'.src).a
          /\ get_entry(cache', db', last'.src).err # "ok"
          /\ \A i \in 1..Len(last'.log) :
                last'.log[i].k = "set" => last'.log[i].id = RootId]_vars

\* C4: after a successful mutator operation every folderish manifest whose
\* children changed has need_sync set, also when need_sync was cleared
\* before by the storing of the synced manifest; no mutator clears need_sync.
C4_ChangedFoldersNeedSync ==
    [][(last = Idle /\ last'.op \in Mutators /\ last'.res = "ok")
       => LET v == Manifests(cache, db)
              w == Manifests(cache', db')
          IN \A a \in Ids :
                (~IsFailure(v[a]) /\ ~IsFailure(w[a]))
                => /\ (is_folderish_manifest(w[a])
                         /\ w[a].children # v[a].children) => w[a].need_sync
                   /\ v[a].need_sync => w[a].need_sync]_vars

\* C5: within a mutator operation no set_manifest call follows the emission
\* of an event.
C5_WritesBeforeEvents ==
    last.op \in Mutators
    => \A i \in 1..Len(last.log) : \A j \in 1..Len(last.log) :
          (i < j /\ last.log[i].k = "event") => last.log[j].k # "set"

\* No folder reached from the root names a child that has no manifest.
NoDanglingChild ==
    LET v == Manifests(cache, db)
    IN \A a \in Subtree(v, RootId) : \A b \in ChildIds(v, a) : ~IsFailure(v[b])

\* C6: an operation interrupted at one of its LBS writes leaves the cache
\* and the LBS with none of its writes (it cannot leave all of them), and no
\* folder reached from the root names a child whose manifest was never
\* written.
C6_AllOrNothing ==
    /\ (last.op \in Mutators /\ last.res = "LBSError")
       => \A i \in 1..Len(last.log) : last.log[i].k # "set"
    /\ NoDanglingChild

\* C7: the manifests reached from the root form a tree: no id is named by
\* two (parent, name) pairs, the root is nobody's child, and no folder holds
\* its own access. (Stated of the store between two calls.)
C7_ReachableManifestsFormATree ==
    last = Idle
    => \A v \in {Manifests(cache, db)} :
          \A refs \in {{pn \in Subtree(v, RootId) \X (Names \cup {""}) :
                           /\ ~IsFailure(v[pn[1]])
                           /\ is_folderish_manifest(v[pn[1]])
                           /\ pn[2] \in DOMAIN v[pn[1]].children}} :
             /\ \A r1 \in refs : \A r2 \in refs :
                   r1 # r2
                   => v[r1[1]].children[r1[2]] # v[r2[1]].children[r2[2]]
             /\ \A r \in refs : v[r[1]].children[r[2]] # RootId
             /\ \A r \in refs : v[r[1]].children[r[2]] # r[1]

\* A copy has returned: a folder holding an entry and its copy, holding the
\* copy of the entry, are both reached from the root.
C7_Witness ==
    /\ last = Idle
    /\ \E v \in {Manifests(cache, db)} :
          \E a \in Subtree(v, RootId) : \E b \in Subtree(v, RootId) :
             /\ a # b
             /\ is_folder_manifest(v[a]) /\ is_folder_manifest(v[b])
             /\ ChildIds(v, a) # {} /\ ChildIds(v, b) # {}
             /\ b \notin Subtree(v, a) /\ a \notin Subtree(v, b)

\* C8: move and copy fail with InvalidArgument whenever src is not the root
\* and dst lies strictly inside src; the failing call changes no manifest.
C8_InsideIsInvalid ==
    [][(MoveOrCopyEnds /\ ~IsRoot(last'.src) /\ Inside(last'.dst, last'.src))
       => /\ last'.res = "InvalidArgument"
          /\ NoManifestChanged]_vars

\* C8 as amended: move and copy fail with InvalidArgument whenever src is not
\* the root, dst lies strictly inside src and the parent of dst resolves to a
\* folder or workspace manifest; the failing call changes no manifest.
C8_InsideResolvedIsInvalid ==
    [][(MoveOrCopyEnds /\ ~IsRoot(last'.src) /\ Inside(last'.dst, last'.src)
          /\ ResolvesToFolder(cache, db, Parent(last'.dst)))
       => /\ last'.res = "InvalidArgument"
          /\ NoManifestChanged]_vars

\* A folder was asked to move or be copied into itself, and was refused.
C8_Witness ==
    /\ last.op \in {"move", "copy"}
    /\ Inside(last.dst, last.src)
    /\ last.res = "InvalidArgument"
    /\ ResolvesToFolder(cache, db, Parent(last.dst))

\* C9: move and copy fail with PermissionDenied whenever src resolves to a
\* workspace, whatever dst is; the failing call changes no manifest.
C9_WorkspaceIsDenied ==
    [][(MoveOrCopyEnds /\ get_entry(cache, db, last'.src).err = "ok"
          /\ is_workspace_manifest(get_entry(cache, db, last'.src).m))
       => /\ last'.res = "PermissionDenied"
          /\ NoManifestChanged]_vars

\* C9 as amended: move and copy fail with PermissionDenied whenever src
\* resolves to a workspace, the parent of dst resolves to a folderish
\* manifest and dst does not lie strictly inside src; the failing call
\* changes no manifest.
C9_WorkspaceToResolvedIsDenied ==
    [][(MoveOrCopyEnds /\ get_entry(cache, db, last'.src).err = "ok"
          /\ is_workspace_manifest(get_entry(cache, db, last'.src).m)
          /\ ResolvesToFolder(cache, db, Parent(last'.dst))
          /\ ~Inside(last'.dst, last'.src))
       => /\ last'.res = "PermissionDenied"
          /\ NoManifestChanged]_vars

\* A workspace was asked to move or be copied into another workspace, and
\* was refused.
C9_Witness ==
    /\ last.op \in {"move", "copy"}
    /\ last.res = "PermissionDenied"
    /\ Len(last.src) = 1
    /\ Len(last.dst) = 2
    /\ get_entry(cache, db, last.src).err = "ok"
    /\ is_workspace_manifest(get_entry(cache, db, last.src).m)
    /\ ResolvesToFolder(cache, db, Parent(last.dst))
    /\ ~Inside(last.dst, last.src)

\* C10: move and copy fail with PermissionDenied whenever src is the root or
\* dst is the root, for every value of the other argument.
C10_RootIsDenied ==
    (last.op \in {"move", "copy"} /\ (IsRoot(last.src) \/ IsRoot(last.dst)))
    => last.res = "PermissionDenied"

\* The path _copy resolves the parent of when src or dst is the root.
OtherPath(src, dst) == IF IsRoot(src) THEN dst ELSE src

\* C10 as amended: move and copy never succeed when src or dst is the root:
\* they fail with PermissionDenied when the parent of the other path
\* resolves to a folderish manifest, and with the error of that resolution
\* (NoSuchEntry, NotADirectory) when it does not.
C10_RootIsDeniedOnceResolved ==
    [][(MoveOrCopyEnds /\ (IsRoot(last'.src) \/ IsRoot(last'.dst)))
       => /\ last'.res # "ok"
          /\ last'.res =
               IF ResolvesToFolder(cache, db,
                                   Parent(OtherPath(last'.src, last'.dst)))
               THEN "PermissionDenied"
               ELSE ParentError(cache, db,
                                Parent(OtherPath(last'.src, last'.dst)))]_vars

\* An entry inside a workspace was asked to move or be copied onto the root,
\* and was refused.
C10_Witness ==
    /\ last.op \in {"move", "copy"}
    /\ IsRoot(last.dst)
    /\ Len(last.src) = 2
    /\ last.res = "PermissionDenied"
    /\ get_entry(cache, db, last.src).err = "ok"

\* src and dst both resolve in the store (c, d).
BothResolve(c, d, src, dst) ==
    get_entry(c, d, src).err = "ok" /\ get_entry(c, d, dst).err = "ok"

\* What the claim C11 says a move or copy of the manifest sm onto the
\* existing manifest dm ends with.
OntoExisting(sm, dm) ==
    IF is_folderish_manifest(sm) /\ is_file_manifest(dm) THEN "NotADirectory"
    ELSE IF is_folderish_manifest(sm) /\ dm.children # NoChildren
    THEN "DirectoryNotEmpty"
    ELSE IF is_file_manifest(sm) /\ is_folderish_manifest(dm)
    THEN "IsADirectory"
    ELSE "ok"

\* After the call, the name of dst maps, in its parent, to an access that
\* did not exist before, and the parent no longer names the access old.
DstReplaced(dst, old) ==
    \A pd \in {get_entry(cache', db', Parent(dst))} :
       /\ pd.err = "ok"
       /\ NameOf(dst) \in DOMAIN pd.m.children
       /\ pd.m.children[NameOf(dst)] \notin KnownIds(Manifests(cache, db))
       /\ \A n \in DOMAIN pd.m.children : pd.m.children[n] # old

\* C11: when dst already exists, move/copy of a folderish src onto a file
\* fails with NotADirectory, of a folderish src onto a non-empty folder with
\* DirectoryNotEmpty, of a file onto a folder with IsADirectory; file onto
\* file and folder onto empty folder succeed, and dst's name then maps to the
\* new copy while dst's previous access is no longer named by the parent.
C11_ExistingDst ==
    [][(MoveOrCopyEnds /\ BothResolve(cache, db, last'.src, last'.dst))
       => \A s \in {get_entry(cache, db, last'.src)} :
          \A e \in {get_entry(cache, db, last'.dst)} :
             /\ last'.res = OntoExisting(s.m, e.m)
             /\ last'.res = "ok" => DstReplaced(last'.dst, e.a)]_vars

\* C11 as amended: the same, for a src that is neither the root nor a
\* workspace and a dst that is not src, does not lie inside src and is not
\* a direct child of the root.
C11_ExistingDstPastTheGuards ==
    [][(MoveOrCopyEnds /\ BothResolve(cache, db, last'.src, last'.dst)
          /\ ~IsRoot(last'.src)
          /\ ~is_workspace_manifest(get_entry(cache, db, last'.src).m)
          /\ ~RelativeTo(last'.dst, last'.src)
          /\ Len(last'.dst) > 1)
       => \A s \in {get_entry(cache, db, last'.src)} :
          \A e \in {get_entry(cache, db, last'.dst)} :
             /\ last'.res = OntoExisting(s.m, e.m)
             /\ last'.res = "ok" => DstReplaced(last'.dst, e.a)]_vars

\* A folder inside a folder was asked to replace the folder it is in, and
\* was refused.
C11_Witness ==
    /\ last.op \in {"move", "copy"}
    /\ last.res = "DirectoryNotEmpty"
    /\ BothResolve(cache, db, last.src, last.dst)
    /\ is_folder_manifest(get_entry(cache, db, last.src).m)
    /\ is_folder_manifest(get_entry(cache, db, last.dst).m)

RECURSIVE Shape(_, _)
\* The names, types and nesting of the subtree under a in the view v.
Shape(v, a) ==
    IF IsFailure(v[a]) THEN [cls |-> v[a].cls]
    ELSE IF is_folderish_manifest(v[a])
    THEN [cls |-> v[a].cls,
          children |-> [n \in DOMAIN v[a].children |->
                           Shape(v, v[a].children[n])]]
    ELSE [cls |-> v[a].cls]

\* C12: after a successful copy(src, dst) with src # dst, src still resolves
\* to the access it had and every manifest of its subtree is unchanged; the
\* subtree at dst has the names, types and nesting of src's subtree and
\* shares no access with it.
C12_CopyIsDeepAndLeavesSrc ==
    [][(last = Idle /\ last'.op = "copy" /\ last'.res = "ok"
          /\ last'.src # last'.dst)
       => \A v \in {Manifests(cache, db)} : \A w \in {Manifests(cache', db')} :
          \A s \in {get_entry(cache, db, last'.src)} :
          \A d \in {get_entry(cache', db', last'.dst)} :
             /\ get_entry(cache', db', last'.src).err = "ok"
             /\ get_entry(cache', db', last'.src).a = s.a
             /\ \A a \in Subtree(v, s.a) : w[a] = v[a]
             /\ d.err = "ok"
             /\ Shape(w, d.a) = Shape(v, s.a)
             /\ Subtree(w, d.a) \cap Subtree(w, s.a) = {}]_vars

\* A folder holding an entry has been copied: both the folder and its copy
\* resolve, each with its own entry.
C12_Witness ==
    /\ last.op = "copy"
    /\ last.res = "ok"
    /\ last.src # last.dst
    /\ Cardinality(Subtree(Manifests(cache, db),
                           get_entry(cache, db, last.dst).a)) = 2
    /\ Cardinality(Subtree(Manifests(cache, db),
                           get_entry(cache, db, last.src).a)) = 2

\* The move back: LocalFolderFS.move(dst, src) called on the store the call
\* that just ended has left.
MoveBack == copy_entry(Store(cache', db', nextId', Unlimited), last'.dst,
                       last'.src, TRUE)

\* C13: for a non-workspace entry at a and a path b that did not exist,
\* move(a, b) followed by move(b, a) gives a tree with the same names, types
\* and nesting at every path as before the two moves, while the accesses of
\* the moved subtree differ from the original ones. (The move back is
\* looked at when the model holds the fresh ids it draws.)
C13_MoveThereAndBack ==
    [][(last = Idle /\ last'.op = "move" /\ last'.res = "ok"
          /\ get_entry(cache, db, last'.dst).err # "ok"
          /\ MoveBack.s.next <= MaxIds + 1)
       => \A r \in {MoveBack} :
          \A v \in {Manifests(cache, db)} :
          \A w \in {Manifests(r.s.cache, r.s.db)} :
             /\ r.res = "ok"
             /\ Shape(w, RootId) = Shape(v, RootId)
             /\ get_entry(r.s.cache, r.s.db, last'.src).err = "ok"
             /\ Subtree(w, get_entry(r.s.cache, r.s.db, last'.src).a)
                  \cap Subtree(v, get_entry(cache, db, last'.src).a) = {}]_vars

\* A folder holding an entry has been moved to another name, and the model
\* holds the ids of the move back.
C13_Witness ==
    /\ last.op = "move"
    /\ last.res = "ok"
    /\ last.src # last.dst
    /\ get_entry(cache, db, last.dst).err = "ok"
    /\ Cardinality(Subtree(Manifests(cache, db),
                           get_entry(cache, db, last.dst).a)) = 2
    /\ nextId + 2 <= MaxIds + 1

\* The second delete: LocalFolderFS.delete(p) called again on the store the
\* call that just ended has left.
DeleteAgain == delete_entry(Store(cache', db', nextId', Unlimited), last'.src,
                            "any")

\* C14: after delete(p) succeeds, a second delete(p) fails with NoSuchEntry,
\* writes no manifest and emits no event: the tree is the one the first
\* delete left.
C14_SecondDeleteFails ==
    [][(last = Idle /\ last'.op = "delete" /\ last'.res = "ok")
       => \A r \in {DeleteAgain} :
             /\ r.res = "NoSuchEntry"
             /\ ~r.s.raised
             /\ r.s.log = << >>
             /\ r.s.db = db'
             /\ Manifests(r.s.cache, r.s.db) = Manifests(cache', db')]_vars

\* An entry two levels below a workspace has been deleted.
C14_Witness ==
    /\ last.op = "delete"
    /\ last.res = "ok"
    /\ Len(last.src) = 3
    /\ get_entry(cache, db, last.src).err = "NoSuchEntry"
    /\ get_entry(cache, db, Parent(last.src)).err = "ok"

\* C15: for every access a and manifest m, right after set_manifest(a, m) the
\* call get_manifest(a) returns m and the LBS entry of a holds the
\* serialisation of m, whatever a held before.
C15_SetThenGet ==
    [][(last = Idle /\ last'.op = "set_manifest")
       => /\ get_manifest(Store(cache', db', nextId', Unlimited),
                          last'.access).m = last'.given
          /\ db'[last'.access] = Dumps(last'.given)
          /\ Loads(db'[last'.access]) = last'.given]_vars

\* The synced form of a manifest has been stored over the manifest itself.
C15_Witness ==
    /\ last.op = "set_manifest"
    /\ last.access # RootId
    /\ ~last.given.need_sync
    /\ cache[last.access] = last.given

\* C16: whenever neither the cache nor the LBS holds the root manifest (empty
\* store, or after mark_outdated_manifest on the root access), stat('/')
\* succeeds and reports type 'root', is_placeholder, need_sync, base_version
\* 0 and no children, the manifest being authored by the local device.
C16_LazyRoot ==
    [][(last = Idle /\ last'.op = "stat" /\ last'.src = RootPath
          /\ cache[RootId] = Absent /\ db[RootId] = Absent)
       => /\ last'.res = "ok"
          /\ last'.out = [type |-> "root", is_folder |-> TRUE,
                          base_version |-> 0, is_placeholder |-> TRUE,
                          need_sync |-> TRUE, children |-> << >>]
          /\ cache'[RootId].author = LocalAuthor]_vars

\* stat('/') has answered with the version 0 of the root after the root
\* manifest, once written, was marked outdated.
C16_Witness ==
    /\ last.op = "stat"
    /\ last.src = RootPath
    /\ last.res = "ok"
    /\ last.out.base_version = 0
    /\ last.out.children = << >>
    /\ db[RootId] = Absent
    /\ nextId > 1

\* C17: get_manifest(a) either returns a manifest or fails with
\* FSManifestLocalMiss; it fails exactly when a is not the root access and
\* is in neither the cache nor the LBS, and never with another error.
C17_GetManifestOutcomes ==
    [][(last = Idle /\ last'.op = "get_manifest")
       => /\ last'.res \in {"ok", "MissLocal"}
          /\ (last'.res = "MissLocal")
               = (/\ last'.access # RootId
                  /\ cache[last'.access] = Absent
                  /\ db[last'.access] = Absent)]_vars

\* The manifest that is local for the id a in the store (c, d): the cached
\* one, else the stored one, else version 0 for the root, else none (Miss).
LocalManifest(c, d, a) ==
    IF c[a] # Absent THEN c[a]
    ELSE IF d[a] # Absent THEN Loads(d[a])
    ELSE IF a = RootId THEN LocalUserManifest(LocalAuthor)
    ELSE Miss

\* The id each prefix of the path leads to, following the names through the
\* local folderish manifests; NoAccess from the first prefix that leads
\* nowhere.
Chain(c, d, path) ==
    LET ch[i \in 0..Len(path)] ==
            IF i = 0 THEN RootId
            ELSE IF ch[i - 1] = NoAccess THEN NoAccess
            ELSE IF IsFailure(LocalManifest(c, d, ch[i - 1])) THEN NoAccess
            ELSE IF ~is_folderish_manifest(LocalManifest(c, d, ch[i - 1]))
            THEN NoAccess
            ELSE IF path[i] \notin DOMAIN LocalManifest(c, d, ch[i - 1]).children
            THEN NoAccess
            ELSE LocalManifest(c, d, ch[i - 1]).children[path[i]]
    IN ch

\* Some segment's name is absent from the children of the folder reached so
\* far.
NameAbsent(c, d, path) ==
    \E ch \in {Chain(c, d, path)} : \E i \in 1..Len(path) :
       /\ ch[i - 1] # NoAccess
       /\ ~IsFailure(LocalManifest(c, d, ch[i - 1]))
       /\ is_folderish_manifest(LocalManifest(c, d, ch[i - 1]))
       /\ path[i] \notin DOMAIN LocalManifest(c, d, ch[i - 1]).children

\* A segment that is not the last resolves to a file manifest.
FileOnTheWay(c, d, path) ==
    \E ch \in {Chain(c, d, path)} : \E i \in 1..(Len(path) - 1) :
       /\ ch[i] # NoAccess
       /\ is_file_manifest(LocalManifest(c, d, ch[i]))

\* Every segment is present and local, every segment but the last folderish.
AllTheWay(c, d, path) ==
    \E ch \in {Chain(c, d, path)} :
       /\ \A i \in 0..Len(path) :
            ch[i] # NoAccess /\ ~IsFailure(LocalManifest(c, d, ch[i]))
       /\ \A i \in 0..(Len(path) - 1) :
            is_folderish_manifest(LocalManifest(c, d, ch[i]))

NoCache == [a \in Ids |-> Absent]

WorkspaceNamed(c, d, n, w) ==
    /\ n \in DOMAIN LocalManifest(c, d, RootId).children
    /\ LocalManifest(c, d, RootId).children[n] = w
    /\ is_workspace_manifest(LocalManifest(c, d, w))

\* get_beacon gives the root's id for '/', and the id of the workspace for a
\* path that starts with the name of a workspace whose manifest is held.
BeaconOfHeldWorkspace ==
    (last = Idle /\ last'.op = "get_beacon")
    => /\ last'.src = RootPath => last'.res = "ok" /\ last'.out = RootId
       /\ \A w \in Ids :
            (/\ Len(last'.src) >= 1
             /\ WorkspaceNamed(cache, db, last'.src[1], w))
            => last'.res = "ok" /\ last'.out = w

\* get_beacon still gives the id of a workspace, direct child of the root,
\* once mark_outdated_manifest has dropped the local copy of its manifest.
BeaconOfOutdatedWorkspace ==
    (last = Idle /\ last'.op = "mark_outdated_manifest")
    => \A n \in Names :
         (/\ last'.access # RootId
          /\ WorkspaceNamed(cache, db, n, last'.access))
         => \A b \in {get_beacon(Store(cache', db', nextId', Unlimited),
                                 <<n>>)} :
               b.res = "ok" /\ b.out = last'.access

RootChild(c, d, n) ==
    IF n \in DOMAIN LocalManifest(c, d, RootId).children
    THEN LocalManifest(c, d, RootId).children[n]
    ELSE NoAccess

\* What get_beacon answers for the entry w found under the first name of the
\* path.
BeaconOutcome(c, d, w) ==
    IF w = NoAccess THEN "NoSuchEntry"
    ELSE IF IsFailure(LocalManifest(c, d, w)) THEN "MissLocal"
    ELSE IF ~is_workspace_manifest(LocalManifest(c, d, w))
    THEN "AssertionError"
    ELSE "ok"

LocalWorkspaceNames(c, d) ==
    {n \in DOMAIN LocalManifest(c, d, RootId).children :
        \E w \in Ids : WorkspaceNamed(c, d, n, w)}

Exists(c, d, path) == AllTheWay(c, d, path)

\* The manifest of the entry the path leads to.
ManifestAt(c, d, path) ==
    LocalManifest(c, d, Chain(c, d, path)[Len(path)])

\* The outcome C23 gives to touch and mkdir of a path below the root, its
\* cases taken in the order it lists them.
CreateOutcomeAsStated(c, d, path) ==
    IF IsRoot(Parent(path)) THEN "PermissionDenied"
    ELSE IF ~Exists(c, d, Parent(path)) THEN "NoSuchEntry"
    ELSE IF is_file_manifest(ManifestAt(c, d, Parent(path)))
    THEN "NotADirectory"
    ELSE IF NameOf(path) \in DOMAIN ManifestAt(c, d, Parent(path)).children
    THEN "FileExists"
    ELSE "ok"

\* The outcome of touch and mkdir: a parent that does not exist is refused
\* with NotADirectory when a file is met on the way to it.
CreateOutcome(c, d, path) ==
    IF IsRoot(path) THEN "FileExists"
    ELSE IF IsRoot(Parent(path)) THEN "PermissionDenied"
    ELSE IF NameAbsent(c, d, Parent(path)) THEN "NoSuchEntry"
    ELSE IF FileOnTheWay(c, d, Parent(path)) THEN "NotADirectory"
    ELSE IF is_file_manifest(ManifestAt(c, d, Parent(path)))
    THEN "NotADirectory"
    ELSE IF NameOf(path) \in DOMAIN ManifestAt(c, d, Parent(path)).children
    THEN "FileExists"
    ELSE "ok"

\* After the call, the parent's children are those it had and the new name,
\* and stat(parent) lists the new name.
ChildGained ==
    /\ DOMAIN ManifestAt(cache', db', Parent(last'.src)).children
         = DOMAIN ManifestAt(cache, db, Parent(last'.src)).children
             \cup {NameOf(last'.src)}
    /\ \A n \in DOMAIN ManifestAt(cache, db, Parent(last'.src)).children :
          ManifestAt(cache', db', Parent(last'.src)).children[n]
            = ManifestAt(cache, db, Parent(last'.src)).children[n]
    /\ \A st \in {stat(Store(cache', db', nextId', Unlimited),
                       Parent(last'.src))} :
          /\ st.res = "ok"
          /\ \E i \in 1..Len(st.out.children) :
                st.out.children[i] = NameOf(last'.src)

\* C23 as stated: touch(path) and mkdir(path) fail with PermissionDenied
\* when the parent of path is the root, with NoSuchEntry when the parent
\* does not exist, with NotADirectory when the parent is a file, with
\* FileExists when the name is already a child of the parent; on success
\* the parent's children gain exactly that name.
C23_CreateErrors ==
    [][(last = Idle /\ last'.op \in {"touch", "mkdir"} /\ ~IsRoot(last'.src))
       => /\ last'.res = CreateOutcomeAsStated(cache, db, last'.src)
          /\ last'.res = "ok" => ChildGained]_vars

\* C23, with the error of a parent that does not exist told apart: touch
\* and mkdir fail with FileExists on the root, else with PermissionDenied
\* when the parent is the root, else with NoSuchEntry when a name on the way
\* to the parent is absent from the folder reached so far, else with
\* NotADirectory when the parent or an entry on the way to it is a file,
\* else with FileExists when the name is already a child of the parent; on
\* success the parent's children gain exactly that name.
C23_CreateErrorsOnTheWay ==
    [][(last = Idle /\ last'.op \in {"touch", "mkdir"})
       => /\ last'.res = CreateOutcome(cache, db, last'.src)
          /\ last'.res = "ok" => ChildGained]_vars

\* A creation was refused with NotADirectory, its parent not existing
\* because a file stands on the way to it.
C23_Witness ==
    /\ last.op \in {"touch", "mkdir"}
    /\ last.res = "NotADirectory"
    /\ FileOnTheWay(cache, db, Parent(last.src))

\* What stat reports, time stamps left out, for a workspace just created.
NewWorkspaceStat ==
    [type |-> "workspace", is_folder |-> TRUE, base_version |-> 0,
     is_placeholder |-> TRUE, need_sync |-> TRUE, children |-> << >>,
     creator |-> UserIdOf(LocalAuthor),
     participants |-> <<UserIdOf(LocalAuthor)>>]

\* The outcome of workspace_create as C24 states it.
WorkspaceCreateOutcome(c, d, path) ==
    IF ~IsRoot(Parent(path)) THEN "PermissionDenied"
    ELSE IF NameOf(path) \in DOMAIN LocalManifest(c, d, RootId).children
    THEN "FileExists"
    ELSE "ok"

\* C24: workspace_create(path) fails with PermissionDenied unless the parent
\* of path is the root, and with FileExists when the name is already a child
\* of the root; on success stat(path) reports type 'workspace',
\* is_placeholder, no children, creator the local user and participants the
\* local user alone.
C24_WorkspaceCreate ==
    [][(last = Idle /\ last'.op = "workspace_create")
       => /\ last'.res = WorkspaceCreateOutcome(cache, db, last'.src)
          /\ last'.res = "ok"
             => \A st \in {stat(Store(cache', db', nextId', Unlimited),
                                last'.src)} :
                   st.res = "ok" /\ st.out = NewWorkspaceStat]_vars

\* The manifests the call just made has written.
Written == {last'.log[i].id : i \in {j \in 1..Len(last'.log) :
                                        last'.log[j].k = "set"}}

\* C25: workspace_rename(src, dst) fails with PermissionDenied when src
\* resolves to an entry that is not a workspace or when dst is not a direct
\* child of the root, and with FileExists when the name of dst is already a
\* child of the root (dst = src included); a failing call writes no
\* manifest.
C25_RenameErrors ==
    [][(last = Idle /\ last'.op = "workspace_rename"
          /\ Exists(cache, db, last'.src))
       => /\ (\/ ~is_workspace_manifest(ManifestAt(cache, db, last'.src))
              \/ Len(last'.dst) # 1)
             => last'.res = "PermissionDenied"
          /\ (/\ is_workspace_manifest(ManifestAt(cache, db, last'.src))
              /\ Len(last'.dst) = 1
              /\ NameOf(last'.dst)
                   \in DOMAIN LocalManifest(cache, db, RootId).children)
             => last'.res = "FileExists"
          /\ last'.res # "ok" => Written = {}]_vars

\* The children mapping without the name n.
Without(children, n) == [k \in DOMAIN children \ {n} |-> children[k]]

\* The successful removal of last'.src changed the manifest of its parent
\* alone, which lost that name and is marked as needing sync.
OnlyTheNameIsLost ==
    \A p \in {Chain(cache, db, Parent(last'.src))[Len(Parent(last'.src))]} :
       /\ \A a \in Ids \ {p} :
             LocalManifest(cache', db', a) = LocalManifest(cache, db, a)
       /\ LocalManifest(cache', db', p)
            = [LocalManifest(cache, db, p)
                 EXCEPT !.children = Without(@, NameOf(last'.src)),
                        !.need_sync = TRUE]

\* C26: unlink on a folder fails with IsADirectory, rmdir on a file with
\* NotADirectory, rmdir and delete on a folder that is not empty with
\* DirectoryNotEmpty; each of the three fails with PermissionDenied on the
\* root and with NoSuchEntry on a name absent from its parent; on success
\* the only change is that the children of the parent lose that name.
C26_DeleteErrors ==
    [][(last = Idle /\ last'.op \in {"delete", "unlink", "rmdir"})
       => /\ IsRoot(last'.src) => last'.res = "PermissionDenied"
          /\ (/\ ~IsRoot(last'.src)
              /\ Exists(cache, db, Parent(last'.src))
              /\ is_folderish_manifest(ManifestAt(cache, db, Parent(last'.src)))
              /\ NameOf(last'.src)
                   \notin DOMAIN ManifestAt(cache, db,
                                            Parent(last'.src)).children)
             => last'.res = "NoSuchEntry"
          /\ (~IsRoot(last'.src) /\ Exists(cache, db, last'.src))
             => \A m \in {ManifestAt(cache, db, last'.src)} :
                  /\ (last'.op = "unlink" /\ is_folderish_manifest(m))
                     => last'.res = "IsADirectory"
                  /\ (last'.op = "rmdir" /\ is_file_manifest(m))
                     => last'.res = "NotADirectory"
                  /\ (/\ last'.op \in {"rmdir", "delete"}
                      /\ is_folderish_manifest(m)
                      /\ DOMAIN m.children # {})
                     => last'.res = "DirectoryNotEmpty"
          /\ last'.res = "ok"
             => Exists(cache, db, last'.src) /\ OnlyTheNameIsLost]_vars

\* An empty folder inside a folder was removed by rmdir, and its name is
\* gone from its parent.
C26_Witness ==
    /\ last.op = "rmdir"
    /\ last.res = "ok"
    /\ Len(last.src) = 3
    /\ Exists(cache, db, Parent(last.src))
    /\ ~Exists(cache, db, last.src)

\* How many entries of the log are fs.entry.updated events for the id a.
UpdatedEvents(log, a) ==
    Cardinality({i \in 1..Len(log) :
                    /\ log[i].k = "event"
                    /\ log[i].name = "fs.entry.updated"
                    /\ log[i].id = a})

\* The ids the log has a manifest write for.
WrittenIds(log) == {log[i].id : i \in {j \in 1..Len(log) : log[j].k = "set"}}

\* C27: a successful tree-modifying operation emits exactly one
\* fs.entry.updated event, carrying the id, for each access whose manifest
\* it wrote, and none for any other access.
C27_OneEventPerWrite ==
    (last.op \in Mutators /\ last.res = "ok")
    => \A a \in Ids :
          UpdatedEvents(last.log, a)
            = IF a \in WrittenIds(last.log) THEN 1 ELSE 0

RECURSIVE Nest(_, _)

\* The plan inside one single-name map per name, the first name outermost.
Nest(names, plan) ==
    IF names = << >> THEN plan ELSE Head(names) :> Nest(Tail(names), plan)

\* How many names of the path lead to its shallowest entry that is a
\* placeholder; Len(path) + 1 when no entry on the way is one.
ShallowestPlaceholder(c, d, path) ==
    IF \E i \in 0..Len(path) :
          ManifestAt(c, d, SubSeq(path, 1, i)).is_placeholder
    THEN CHOOSE i \in 0..Len(path) :
            /\ ManifestAt(c, d, SubSeq(path, 1, i)).is_placeholder
            /\ \A j \in 0..(i - 1) :
                  ~ManifestAt(c, d, SubSeq(path, 1, j)).is_placeholder
    ELSE Len(path) + 1

\* The answer of get_sync_strategy when sync_path is the first k names of
\* the path.
StrategyAt(path, plan, k) ==
    [sync_path |-> SubSeq(path, 1, k),
     plan |-> Nest(SubSeq(path, k + 1, Len(path)), plan)]

\* C28 as stated: get_sync_strategy(path, plan) returns as sync_path the
\* path of the shallowest entry, on the way from the root down to path,
\* that is a placeholder, and the plan inside one single-name map per hop
\* between sync_path and path; with no placeholder on the way it returns
\* (path, plan).
C28_SyncStrategy ==
    [][(last = Idle /\ last'.op = "get_sync_strategy" /\ last'.res = "ok")
       => \A k \in {ShallowestPlaceholder(cache, db, last'.src)} :
             last'.out = IF k > Len(last'.src)
                         THEN [sync_path |-> last'.src, plan |-> last'.given]
                         ELSE StrategyAt(last'.src, last'.given, k)]_vars

\* C28, with the sync_path the code returns: the parent of the shallowest
\* entry, on the way from the root down to path, that is a placeholder (the
\* root when that entry is the root), and the plan inside one single-name
\* map per hop between sync_path and path; with no placeholder on the way
\* it returns (path, plan).
C28_SyncStrategyFromParent ==
    [][(last = Idle /\ last'.op = "get_sync_strategy" /\ last'.res = "ok")
       => \A k \in {ShallowestPlaceholder(cache, db, last'.src)} :
             last'.out = IF k > Len(last'.src)
                         THEN [sync_path |-> last'.src, plan |-> last'.given]
                         ELSE IF k = 0
                         THEN StrategyAt(last'.src, last'.given, 0)
                         ELSE StrategyAt(last'.src, last'.given, k - 1)]_vars

\* A strategy was asked for a path below a placeholder workspace of a root
\* that is none: sync_path is the root, the parent of that workspace, and
\* the plan is wrapped once per name of the path.
C28_Witness ==
    /\ last.op = "get_sync_strategy"
    /\ last.res = "ok"
    /\ Len(last.src) >= 2
    /\ ~LocalManifest(cache, db, RootId).is_placeholder
    /\ last.out.sync_path = RootPath
    /\ last.out.plan = Nest(last.src, last.given)

\* C29: no mutator changes is_placeholder or base_version of a manifest
\* stored under an existing access (a placeholder stays one, a synced
\* manifest keeps its version, until the sync engine stores another through
\* set_manifest), and every manifest a mutator creates starts with
\* is_placeholder true and base_version 0.
C29_MutatorsKeepSyncState ==
    [][(last = Idle /\ last'.op \in Mutators)
       => \A a \in Ids :
            \A before \in {LocalManifest(cache, db, a)} :
            \A after \in {LocalManifest(cache', db', a)} :
               /\ ~IsFailure(before)
                  => /\ ~IsFailure(after)
                     /\ after.is_placeholder = before.is_placeholder
                     /\ after.base_version = before.base_version
               /\ (IsFailure(before) /\ ~IsFailure(after))
                  => after.is_placeholder /\ after.base_version = 0]_vars

\* A mutator has rewritten a manifest that the sync engine had stored as
\* synced, and has created another.
C29_Witness ==
    /\ last.op \in Mutators
    /\ last.res = "ok"
    /\ \E a \in WrittenIds(last.log) :
          ~cache[a].is_placeholder /\ cache[a].base_version = 1
    /\ \E a \in WrittenIds(last.log) :
          cache[a].is_placeholder /\ cache[a].base_version = 0

\* C30 as stated: the conversions lose nothing in either direction:
\* remote.to_local().to_remote() is the remote manifest it started from, and
\* local.to_remote().to_local() the local manifest it started from, whatever
\* its need_sync, is_placeholder and dirty_blocks.
C30_RoundTrips ==
    last.op \in {"to_local_to_remote", "to_remote_to_local"}
    => last.out = last.given

\* The local manifest m as a synced one: nothing to sync, no placeholder, no
\* dirty block.
AsSynced(m) ==
    IF m.cls = "file"
    THEN [m EXCEPT !.need_sync = FALSE, !.is_placeholder = FALSE,
                   !.dirty_blocks = << >>]
    ELSE [m EXCEPT !.need_sync = FALSE, !.is_placeholder = FALSE]

\* C30, with what the conversions drop: remote.to_local().to_remote() is the
\* remote manifest it started from, but for a workspace manifest without
\* participants, which comes back with its creator for only participant;
\* local.to_remote().to_local() is the local manifest it started from with
\* need_sync false, is_placeholder false and no dirty_blocks, hence the same
\* manifest only when it had those already.
C30_RoundTripsOfSyncedState ==
    /\ last.op = "to_local_to_remote"
       => last.out = IF last.given.cls = "workspace"
                        /\ last.given.participants = << >>
                     THEN [last.given EXCEPT
                             !.participants = <<last.given.creator>>]
                     ELSE last.given
    /\ last.op = "to_remote_to_local" => last.out = AsSynced(last.given)

\* A local file manifest that is a placeholder with a dirty block went to
\* remote and back, and came back as another manifest.
C30_Witness ==
    /\ last.op = "to_remote_to_local"
    /\ last.given.cls = "file"
    /\ last.given.is_placeholder
    /\ last.given.dirty_blocks # << >>
    /\ last.out # last.given

\* The accesses the LBS holds a manifest for.
Stored(d) == {a \in Ids : d[a] # Absent}

\* C31: unlinking destroys no stored manifest: under the mutators the set of
\* accesses stored in the LBS never shrinks, and the manifest of an entry
\* that delete, unlink, rmdir or move has just unlinked is still read
\* through its access, by this LocalFolderFS and by one built anew over the
\* same LBS.
C31_UnlinkedStaysReadable ==
    [][/\ (last = Idle /\ last'.op \in Mutators)
          => Stored(db) \subseteq Stored(db')
       /\ (/\ last = Idle
           /\ last'.op \in {"delete", "unlink", "rmdir", "move"}
           /\ last'.res = "ok")
          => \A x \in {Chain(cache, db, last'.src)[Len(last'.src)]} :
             \A c \in {cache', NoCache} :
                get_manifest(Store(c, db', nextId', Unlimited), x).m
                  = LocalManifest(cache, db, x)]_vars

\* ------------------------------------------- a store that misses manifests

\* The store of a LocalFolderFS that has made no call yet.
NewStore == Store([a \in Ids |-> Absent], [a \in Ids |-> Absent], 1, Unlimited)

\* The workspace /a with the folder /a/a in it, made by the mutators.
TreeTop == mkdir(workspace_create(NewStore, <<"a">>).s, <<"a", "a">>).s

\* /a/a holds the files a and b.
TreeTouched == touch(touch(TreeTop, <<"a", "a", "a">>).s, <<"a", "a", "b">>).s

\* A file another device wrote, synced once and written to since.
WrittenFile ==
    [LocalFileManifest([user_id |-> "bob", device_name |-> "pc2"], 2, <<1>>,
                       <<2>>)
       EXCEPT !.base_version = 1, !.is_placeholder = FALSE]

\* The file /a/a/b has got content, stored through set_manifest.
TreeFlat ==
    set_manifest(TreeTouched, retrieve_entry(TreeTouched, <<"a", "a", "b">>).a,
                 WrittenFile)

\* /a/a holds the folder a, itself holding the file a, and the file b.
TreeDeep ==
    touch(touch(mkdir(TreeTop, <<"a", "a", "a">>).s,
                <<"a", "a", "a", "a">>).s,
          <<"a", "a", "b">>).s

\* A LocalFolderFS over a local store that holds a tree: the one that made
\* the tree, or one built anew over the same store.
InitMiss ==
    /\ \E t \in {TreeFlat, TreeDeep} :
          /\ cache \in {t.cache, [a \in Ids |-> Absent]}
          /\ db = t.db
          /\ nextId = t.next
    /\ calls = 0
    /\ pool = NoPool
    /\ tasks = NoPool
    /\ last = Idle

\* Moves and copies over a store the sync engine drops manifests from.
NextMiss == MarkOutdated \/ Move \/ Copy \/ Return

SpecMiss == InitMiss /\ [][NextMiss]_vars

\* What a LocalFolderFS sees under each access.
LocalView(c, d) == [a \in Ids |-> LocalManifest(c, d, a)]

\* The accesses below a that a local folder names and that have no local
\* manifest.
MissingBelow(c, d, a) ==
    {x \in Subtree(LocalView(c, d), a) \ {a} : LocalManifest(c, d, x) = Miss}

\* What src resolves to before the call that ends.
SrcAccess == Chain(cache, db, last'.src)[Len(last'.src)]

\* The accesses _recursive_create_copy_map gathers for the src of the call
\* that ends.
MissList ==
    recursive_create_copy_map(Store(cache, db, nextId, Unlimited), SrcAccess,
                              LocalManifest(cache, db, SrcAccess)).miss

\* The call that ends has stored nothing: the LBS is as it was, no
\* set_manifest was made, no fs.entry.updated sent.
NothingStored ==
    /\ db' = db
    /\ WrittenIds(last'.log) = {}
    /\ \A a \in Ids : UpdatedEvents(last'.log, a) = 0

\* The cache changed only by taking in manifests read from the LBS.
CacheOnlyRead ==
    \A a \in Ids :
       cache'[a] # cache[a]
       => cache[a] = Absent /\ cache'[a] = LocalManifest(cache, db, a)

\* The entry at dst, if any, is local and does not forbid the copy of m.
DstAllows(c, d, dst, m) ==
    \A y \in {Chain(c, d, dst)[Len(dst)]} :
       y # NoAccess
       => /\ LocalManifest(c, d, y) # Miss
          /\ IF is_folderish_manifest(m)
             THEN /\ is_folderish_manifest(LocalManifest(c, d, y))
                  /\ DOMAIN LocalManifest(c, d, y).children = {}
             ELSE is_file_manifest(LocalManifest(c, d, y))

\* Every check _copy makes before the copy phase passes: src and dst differ
\* and none is the root, src is local and no workspace, dst's parent is a
\* local folder out of the root, dst is not inside src, and the entry at
\* dst allows the copy.
ReachesCopyPhase(c, d, src, dst) ==
    /\ src # dst
    /\ Len(src) >= 1 /\ Len(dst) >= 2
    /\ AllTheWay(c, d, src)
    /\ ~is_workspace_manifest(ManifestAt(c, d, src))
    /\ AllTheWay(c, d, Parent(dst))
    /\ is_folderish_manifest(ManifestAt(c, d, Parent(dst)))
    /\ ~RelativeTo(dst, src)
    /\ DstAllows(c, d, dst, ManifestAt(c, d, src))

\* A move or copy ends whose src resolves and has a missing descendant.
MissingDescendant ==
    /\ MoveOrCopyEnds
    /\ SrcAccess # NoAccess
    /\ MissingBelow(cache, db, SrcAccess) # {}

\* The move or copy of a src with a missing descendant fails with
\* FSMultiManifestLocalMiss whatever the rest of the call, and leaves the
\* cache as it was.
C32_AsStated ==
    [][MissingDescendant
       => /\ last'.res = "MultiMissLocal"
          /\ cache' = cache
          /\ db' = db]_vars

\* C32: a move or copy whose src has a locally missing descendant, and that
\* passes every check made before the copy phase, fails with
\* FSMultiManifestLocalMiss; the list holds, once each, exactly the accesses
\* of src's subtree that a local folder names and that have no local
\* manifest; no move or copy of such a src but one onto itself succeeds, and
\* none stores a manifest or sends fs.entry.updated: the cache only takes in
\* manifests read from the LBS.
C32_MissingDescendants ==
    [][/\ MissingDescendant
          => /\ last'.src # last'.dst => last'.res # "ok"
             /\ NothingStored
             /\ CacheOnlyRead
             /\ ReachesCopyPhase(cache, db, last'.src, last'.dst)
                => last'.res = "MultiMissLocal"
       /\ (MoveOrCopyEnds /\ last'.res = "MultiMissLocal")
          => /\ MissingDescendant
             /\ {MissList[i] : i \in 1..Len(MissList)}
                  = MissingBelow(cache, db, SrcAccess)
             /\ Len(MissList) = Cardinality(MissingBelow(cache, db, SrcAccess))]_vars

\* A move or copy failed with FSMultiManifestLocalMiss over a src missing
\* descendants in two branches.
C32_Witness ==
    /\ last # Idle
    /\ last.op \in {"move", "copy"}
    /\ last.res = "MultiMissLocal"
    /\ Cardinality(MissingBelow(cache, db,
                       Chain(cache, db, last.src)[Len(last.src)])) >= 2

\* The accesses drawn by the call that ends.
Fresh == nextId..(nextId' - 1)

\* The positions of the log at which a is written.
SetAt(log, a) == {i \in 1..Len(log) : log[i].k = "set" /\ log[i].id = a}

\* A manifest as the copy phase makes them: of the local device, never
\* synced.
NewlyMade(m) ==
    /\ m.author = LocalAuthor
    /\ m.is_placeholder
    /\ m.need_sync
    /\ m.base_version = 0

RECURSIVE IsCopyOf(_, _, _, _)
\* Under the view w, b holds a copy of what a holds under the view v: a file
\* of the same size, blocks and dirty blocks, or a folder of the same child
\* names whose children are copies in turn.
IsCopyOf(v, w, a, b) ==
    /\ ~IsFailure(w[b])
    /\ IF is_file_manifest(v[a])
       THEN /\ is_file_manifest(w[b])
            /\ w[b].size = v[a].size
            /\ w[b].blocks = v[a].blocks
            /\ w[b].dirty_blocks = v[a].dirty_blocks
       ELSE /\ w[b].cls = v[a].cls
            /\ DOMAIN w[b].children = DOMAIN v[a].children
            /\ \A n \in DOMAIN v[a].children :
                  IsCopyOf(v, w, v[a].children[n], w[b].children[n])

\* C33: in a successful move or copy every access drawn is written once,
\* with a manifest of the local device that is a placeholder, needs sync and
\* has base version 0, stored alike in the cache and the LBS; no access in
\* use before is written but the parents'; what dst names afterwards is a
\* copy of src: a file keeps size, blocks and dirty blocks, a folder has the
\* child names of its source; and each child of a copied folder is written
\* before the folder.
C33_CopyPhase ==
    [][(MoveOrCopyEnds /\ last'.res = "ok" /\ last'.src # last'.dst)
       => /\ Fresh # {}
          /\ \A f \in Fresh :
                /\ Cardinality(SetAt(last'.log, f)) = 1
                /\ cache[f] = Absent /\ db[f] = Absent
                /\ cache'[f] # Absent
                /\ db'[f] # Absent /\ Loads(db'[f]) = cache'[f]
                /\ NewlyMade(cache'[f])
                /\ is_folderish_manifest(cache'[f])
                   => \A n \in DOMAIN cache'[f].children :
                         /\ cache'[f].children[n] \in Fresh
                         /\ \A i \in SetAt(last'.log, cache'[f].children[n]) :
                            \A j \in SetAt(last'.log, f) : i < j
          /\ WrittenIds(last'.log) \ Fresh
               \subseteq {Chain(cache, db, Parent(last'.src))[Len(last'.src) - 1],
                          Chain(cache, db, Parent(last'.dst))[Len(last'.dst) - 1]}
          /\ Chain(cache', db', last'.dst)[Len(last'.dst)] \in Fresh
          /\ IsCopyOf(LocalView(cache, db), LocalView(cache', db'), SrcAccess,
                      Chain(cache', db', last'.dst)[Len(last'.dst)])]_vars

\* A folder holding a file with content was copied, and the copy of the file
\* holds that content.
C33_Witness ==
    /\ last # Idle
    /\ last.op = "copy"
    /\ last.res = "ok"
    /\ Exists(cache, db, last.dst)
    /\ is_folder_manifest(ManifestAt(cache, db, last.dst))
    /\ \E n \in DOMAIN ManifestAt(cache, db, last.dst).children :
          \E m \in {LocalManifest(cache, db,
                        ManifestAt(cache, db, last.dst).children[n])} :
             /\ is_file_manifest(m)
             /\ m.blocks # << >>
             /\ m.dirty_blocks # << >>

\* A move or copy of an entry other than the root onto itself ends.
OntoItselfEnds ==
    /\ MoveOrCopyEnds
    /\ last'.src = last'.dst
    /\ last'.src # RootPath

\* A move or copy onto itself fails with NoSuchEntry whenever src does not
\* exist.
C34_AsStated ==
    [][OntoItselfEnds
       => /\ NothingStored
          /\ ~Exists(cache, db, last'.src) => last'.res = "NoSuchEntry"
          /\ Exists(cache, db, last'.src)
             => last'.res
                  = IF is_workspace_manifest(ManifestAt(cache, db, last'.src))
                    THEN "PermissionDenied" ELSE "ok"]_vars

\* C34: a move or copy with src = dst, src not the root, writes no manifest
\* and emits no fs.entry.updated; it fails with NoSuchEntry when a segment
\* of src is absent from the folder reached so far, with NotADirectory when
\* a segment before the last is a file, with PermissionDenied when src is a
\* workspace, and otherwise returns successfully.
C34_OntoItself ==
    [][OntoItselfEnds
       => /\ NothingStored
          /\ CacheOnlyRead
          /\ NameAbsent(cache, db, last'.src) => last'.res = "NoSuchEntry"
          /\ FileOnTheWay(cache, db, last'.src) => last'.res = "NotADirectory"
          /\ Exists(cache, db, last'.src)
             => last'.res
                  = IF is_workspace_manifest(ManifestAt(cache, db, last'.src))
                    THEN "PermissionDenied" ELSE "ok"
          /\ \/ NameAbsent(cache, db, last'.src)
             \/ FileOnTheWay(cache, db, last'.src)
             \/ Exists(cache, db, last'.src)]_vars

\* A move of a path below a file onto itself was refused as not a directory.
C34_Witness ==
    /\ last # Idle
    /\ last.op = "move"
    /\ last.src = last.dst
    /\ last.res = "NotADirectory"
    /\ FileOnTheWay(cache, db, last.src)

\* The fs.entry.updated events of a log.
AllUpdatedEvents(log) ==
    {i \in 1..Len(log) : log[i].k = "event" /\ log[i].name = "fs.entry.updated"}

\* The accesses of the parents of src and dst before the call that ends.
SrcParent == Chain(cache, db, Parent(last'.src))[Len(last'.src) - 1]
DstParent == Chain(cache, db, Parent(last'.dst))[Len(last'.dst) - 1]

\* C35: a successful move or copy from src to another dst emits
\* fs.entry.updated once for dst's parent, and once more, for src's parent,
\* exactly when it is a move between two distinct parents; nothing else is
\* announced. Within one parent that parent is written once, and the one
\* manifest written holds dst and, for a move, no longer src.
C35_ParentsAnnounced ==
    [][(MoveOrCopyEnds /\ last'.res = "ok" /\ last'.src # last'.dst)
       => /\ UpdatedEvents(last'.log, DstParent) = 1
          /\ UpdatedEvents(last'.log, SrcParent)
               = IF last'.op = "move" \/ SrcParent = DstParent THEN 1 ELSE 0
          /\ Cardinality(AllUpdatedEvents(last'.log))
               = IF last'.op = "move" /\ SrcParent # DstParent THEN 2 ELSE 1
          /\ SrcParent = DstParent
             => /\ Cardinality(SetAt(last'.log, DstParent)) = 1
                /\ NameOf(last'.dst) \in DOMAIN cache'[DstParent].children
                /\ cache'[DstParent].children[NameOf(last'.dst)] \in Fresh
                /\ (NameOf(last'.src) \in DOMAIN cache'[DstParent].children)
                     = (last'.op = "copy")
                /\ \A n \in Names \ {NameOf(last'.src), NameOf(last'.dst)} :
                      /\ (n \in DOMAIN cache'[DstParent].children)
                           = (n \in DOMAIN cache[DstParent].children)
                      /\ n \in DOMAIN cache[DstParent].children
                         => cache'[DstParent].children[n]
                              = cache[DstParent].children[n]]_vars

\* An entry was moved from one folder to another.
C35_Witness ==
    /\ last # Idle
    /\ last.op = "move"
    /\ last.res = "ok"
    /\ Parent(last.src) # Parent(last.dst)
    /\ UpdatedEvents(last.log, Chain(cache, db, Parent(last.src))[Len(last.src) - 1]) = 1

\* The positions of the log at which fs.workspace.loaded is sent for a.
LoadedAt(log, a) ==
    {i \in 1..Len(log) : /\ log[i].k = "event"
                         /\ log[i].name = "fs.workspace.loaded"
                         /\ log[i].id = a}

\* The workspace manifests the call that ends has loaded from the LBS into
\* the cache.
LoadedFromLBS ==
    {a \in Ids : /\ cache[a] = Absent
                 /\ db[a] # Absent
                 /\ is_workspace_manifest(Loads(db[a]))
                 /\ cache'[a] # Absent
                 /\ last'.op # "set_manifest"}

\* What a path resolves to, NoAccess if to nothing.
ManifestAccessAt(c, d, path) == Chain(c, d, path)[Len(path)]

\* C36: a call sends fs.workspace.loaded once for each workspace manifest it
\* loads from the LBS into the cache, with the access and a path that
\* resolves to it before or after the call; workspace_create ends with fs.entry.updated for the root,
\* fs.entry.updated for the workspace, then fs.workspace.loaded with its
\* path and access; and nothing else sends it: a workspace manifest read
\* from the cache is not announced.
C36_WorkspaceLoaded ==
    [][(last = Idle /\ last' # Idle /\ "log" \in DOMAIN last')
       => /\ \A a \in LoadedFromLBS :
                /\ Cardinality(LoadedAt(last'.log, a)) = 1
                /\ \A i \in LoadedAt(last'.log, a) :
                      \/ ManifestAccessAt(cache, db, last'.log[i].path) = a
                      \/ ManifestAccessAt(cache', db', last'.log[i].path) = a
          /\ (last'.op = "workspace_create" /\ last'.res = "ok")
             => \A n \in {Len(last'.log)} :
                \A w \in {cache'[RootId].children[NameOf(last'.src)]} :
                   /\ n >= 3
                   /\ last'.log[n - 2]
                        = [k |-> "event", name |-> "fs.entry.updated",
                           id |-> RootId, path |-> << >>]
                   /\ last'.log[n - 1]
                        = [k |-> "event", name |-> "fs.entry.updated",
                           id |-> w, path |-> << >>]
                   /\ last'.log[n]
                        = [k |-> "event", name |-> "fs.workspace.loaded",
                           id |-> w, path |-> last'.src]
                   /\ LoadedAt(last'.log, w) = {n}
          /\ \A a \in Ids :
                LoadedAt(last'.log, a) # {}
                => \/ a \in LoadedFromLBS
                   \/ /\ last'.op = "workspace_create"
                      /\ last'.res = "ok"
                      /\ a = cache'[RootId].children[NameOf(last'.src)]]_vars

\* Every mutator over a store the sync engine drops manifests from.
NextFail == Next \/ MarkOutdated

\* The LocalFolderFS that made the tree of two files.
InitFail ==
    /\ cache = TreeFlat.cache
    /\ db = TreeFlat.db
    /\ nextId = TreeFlat.next
    /\ calls = 0
    /\ pool = NoPool
    /\ tasks = NoPool
    /\ last = Idle

SpecFail == InitFail /\ [][NextFail]_vars

\* The errors the mutators declare.
DeclaredErrors ==
    {"NoSuchEntry", "NotADirectory", "IsADirectory", "DirectoryNotEmpty",
     "FileExists", "PermissionDenied", "InvalidArgument", "MissLocal",
     "MultiMissLocal"}

\* C37: a touch, mkdir, workspace_create, workspace_rename, delete, unlink,
\* rmdir, move or copy that fails with one of its declared errors has left
\* every LBS entry as it was, made no set_manifest and sent no
\* fs.entry.updated.
C37_FailuresStoreNothing ==
    [][(last = Idle /\ last'.op \in Mutators /\ last'.res \in DeclaredErrors)
       => NothingStored]_vars

\* A move failed with MissLocal, the manifest of its src being dropped.
C37_Witness ==
    /\ last # Idle
    /\ last.op = "move"
    /\ last.res = "MissLocal"
    /\ Len(last.src) = 3

\* The read operations.
ReadOps ==
    {"stat", "get_access", "get_entry", "get_beacon", "get_local_beacons",
     "get_sync_strategy", "dump"}

\* C38: stat, get_access, get_entry, get_beacon, get_local_beacons,
\* get_sync_strategy and dump, succeeding or failing, write and clear no LBS
\* entry, make no set_manifest and send no fs.entry.updated; all they do is
\* take into the cache manifests read from the LBS, or the synthesised
\* root, and send fs.workspace.loaded.
C38_ReadsStoreNothing ==
    [][(last = Idle /\ last'.op \in ReadOps)
       => /\ NothingStored
          /\ CacheOnlyRead
          /\ nextId' = nextId
          /\ \A i \in 1..Len(last'.log) :
                /\ last'.log[i].k = "event"
                /\ last'.log[i].name = "fs.workspace.loaded"]_vars

\* A dump by a LocalFolderFS built anew took a workspace manifest into the
\* cache and announced it.
C38_Witness ==
    /\ last # Idle
    /\ last.op = "dump"
    /\ last.res = "ok"
    /\ last.log # << >>
    /\ \E a \in Ids \ {RootId} : cache[a] # Absent

\* C39: every manifest in the cache is the manifest the LBS stores under
\* the same access; the only cache entry the LBS may lack is the root's,
\* holding the synthesised user manifest of version 0.
C39_CacheMirrorsLBS ==
    \A a \in Ids :
       cache[a] # Absent
       => \/ db[a] # Absent /\ Loads(db[a]) = cache[a]
          \/ /\ a = RootId
             /\ db[a] = Absent
             /\ cache[a] = LocalUserManifest(LocalAuthor)

\* The cache holds the synthesised root, which the LBS lacks, beside a
\* manifest that set_manifest stored.
C39_Witness ==
    /\ cache[RootId] # Absent
    /\ db[RootId] = Absent
    /\ \E a \in Ids \ {RootId} : cache[a] # Absent /\ db[a] # Absent

\* ------------------------------------------------------ the transport pool

\* The tasks that call TransportPool.acquire, the largest max a pool is made
\* with, and the number of connections _connect opens at most.
MaxTasks == 3
MaxPoolMax == 2
MaxOpened == 3

Tasks == 1..MaxTasks
Transports == 1..MaxOpened

\* A task outside acquire, its last acquire having ended as exit.
Out(exit) == [pc |-> "out", transport |-> 0, force_fresh |-> FALSE,
              exit |-> exit]

\* TransportPool.__init__
TransportPool(max) ==
    [max |-> max, lock |-> max, transports |-> << >>, closed |-> FALSE,
     opened |-> 0, aclosed |-> {}]

\* transport_pool_factory hands out a pool of max transports; no task has
\* called acquire yet.
InitPool ==
    /\ cache = [a \in Ids |-> Absent]
    /\ db = [a \in Ids |-> Absent]
    /\ nextId = 1
    /\ calls = 0
    /\ last = Idle
    /\ pool \in {TransportPool(max) : max \in 1..MaxPoolMax}
    /\ tasks = [t \in Tasks |-> Out("none")]

\* A task calls acquire and waits for the semaphore.
Acquire ==
    \E t \in Tasks, force_fresh \in BOOLEAN :
       /\ tasks[t].pc = "out"
       /\ tasks' = [tasks EXCEPT ![t] = [pc |-> "waiting", transport |-> 0,
                                         force_fresh |-> force_fresh,
                                         exit |-> "none"]]
       /\ UNCHANGED <<cache, db, nextId, calls, last, pool>>

\* The task enters the semaphore and pops the transport put back last.
TakePooled ==
    \E t \in Tasks :
       /\ tasks[t].pc = "waiting"
       /\ pool.lock > 0
       /\ ~tasks[t].force_fresh
       /\ pool.transports # << >>
       /\ pool' = [pool EXCEPT
                     !.lock = @ - 1,
                     !.transports = SubSeq(@, 1, Len(@) - 1)]
       /\ tasks' = [tasks EXCEPT
                      ![t].pc = "holding",
                      ![t].transport = pool.transports[Len(pool.transports)]]
       /\ UNCHANGED <<cache, db, nextId, calls, last>>

\* The task enters the semaphore with no transport to take: it starts
\* _connect.
StartConnect ==
    \E t \in Tasks :
       /\ tasks[t].pc = "waiting"
       /\ pool.lock > 0
       /\ tasks[t].force_fresh \/ pool.transports = << >>
       /\ ~pool.closed
       /\ pool' = [pool EXCEPT !.lock = @ - 1]
       /\ tasks' = [tasks EXCEPT ![t].pc = "connecting"]
       /\ UNCHANGED <<cache, db, nextId, calls, last>>

\* The same on a closed pool: ClosedResourceError, the semaphore is left.
RefusedClosed ==
    \E t \in Tasks :
       /\ tasks[t].pc = "waiting"
       /\ pool.lock > 0
       /\ tasks[t].force_fresh \/ pool.transports = << >>
       /\ pool.closed
       /\ tasks' = [tasks EXCEPT ![t] = Out("ClosedResourceError")]
       /\ UNCHANGED <<cache, db, nextId, calls, last, pool>>

\* _connect returns a new transport: the holder's block starts.
Connected ==
    \E t \in Tasks :
       /\ tasks[t].pc = "connecting"
       /\ pool.opened < MaxOpened
       /\ pool' = [pool EXCEPT !.opened = @ + 1]
       /\ tasks' = [tasks EXCEPT ![t].pc = "holding",
                                 ![t].transport = pool.opened + 1]
       /\ UNCHANGED <<cache, db, nextId, calls, last>>

\* _connect raises: the semaphore is left.
ConnectFails ==
    \E t \in Tasks :
       /\ tasks[t].pc = "connecting"
       /\ pool' = [pool EXCEPT !.lock = @ + 1]
       /\ tasks' = [tasks EXCEPT ![t] = Out("BackendNotAvailable")]
       /\ UNCHANGED <<cache, db, nextId, calls, last>>

\* The holder's block exits without an exception: the transport is put
\* back.
ExitOk ==
    \E t \in Tasks :
       /\ tasks[t].pc = "holding"
       /\ pool' = [pool EXCEPT
                     !.lock = @ + 1,
                     !.transports = Append(@, tasks[t].transport)]
       /\ tasks' = [tasks EXCEPT ![t] = Out("ok")]
       /\ UNCHANGED <<cache, db, nextId, calls, last>>

\* The block raises TransportClosedByPeer, raised again as it is, or is
\* cancelled, which no handler of acquire catches.
ExitUnhandled ==
    \E t \in Tasks, exc \in {"TransportClosedByPeer", "Cancelled"} :
       /\ tasks[t].pc = "holding"
       /\ pool' = [pool EXCEPT !.lock = @ + 1]
       /\ tasks' = [tasks EXCEPT ![t] = Out(exc)]
       /\ UNCHANGED <<cache, db, nextId, calls, last>>

\* The block raises another exception: acquire awaits transport.aclose().
ExitException ==
    \E t \in Tasks :
       /\ tasks[t].pc = "holding"
       /\ tasks' = [tasks EXCEPT ![t].pc = "closing"]
       /\ UNCHANGED <<cache, db, nextId, calls, last, pool>>

\* Aclosed putting the transport back after closing it.
AclosedAndPutBack ==
    \E t \in Tasks :
       /\ tasks[t].pc = "closing"
       /\ pool' = [pool EXCEPT
                     !.lock = @ + 1,
                     !.transports = Append(@, tasks[t].transport),
                     !.aclosed = @ \cup {tasks[t].transport}]
       /\ tasks' = [tasks EXCEPT ![t] = Out("Exception")]
       /\ UNCHANGED <<cache, db, nextId, calls, last>>

\* aclose is done: the exception is raised again, the semaphore left.
Aclosed ==
    \E t \in Tasks :
       /\ tasks[t].pc = "closing"
       /\ pool' = [pool EXCEPT
                     !.lock = @ + 1,
                     !.aclosed = @ \cup {tasks[t].transport}]
       /\ tasks' = [tasks EXCEPT ![t] = Out("Exception")]
       /\ UNCHANGED <<cache, db, nextId, calls, last>>

\* transport_pool_factory ends: the pool is closed and the transports in it
\* are closed, the list being left as it is.
ClosePool ==
    /\ ~pool.closed
    /\ pool' = [pool EXCEPT
                  !.closed = TRUE,
                  !.aclosed = @ \cup {pool.transports[i] :
                                         i \in 1..Len(pool.transports)}]
    /\ UNCHANGED <<cache, db, nextId, calls, last, tasks>>

NextPool ==
    \/ Acquire
    \/ TakePooled
    \/ StartConnect
    \/ RefusedClosed
    \/ Connected
    \/ ConnectFails
    \/ ExitOk
    \/ ExitUnhandled
    \/ ExitException
    \/ Aclosed
    \/ ClosePool

SpecPool == InitPool /\ [][NextPool]_vars

\* The tasks inside the semaphore with a transport.
Holders == {t \in Tasks : tasks[t].pc \in {"holding", "closing"}}

\* The transports in the pool.
Pooled(p) == {p.transports[i] : i \in 1..Len(p.transports)}

\* At most max transports are held, each by one task, none of them in the
\* pool, and the pool holds no transport twice.
HeldApart ==
    /\ Cardinality(Holders) <= pool.max
    /\ \A t, u \in Holders : t # u => tasks[t].transport # tasks[u].transport
    /\ \A t \in Holders : tasks[t].transport \notin Pooled(pool)
    /\ Cardinality(Pooled(pool)) = Len(pool.transports)

\* A transport enters the pool only as its holder's block exits without an
\* exception, and the transport of a holder that fails is not in the pool
\* afterwards.
PutBackOnSuccessOnly ==
    /\ \A x \in Pooled(pool') \ Pooled(pool) :
          \E t \in Tasks : /\ tasks[t].pc = "holding"
                           /\ tasks[t].transport = x
                           /\ tasks'[t] = Out("ok")
    /\ \A t \in Holders :
          (tasks'[t].pc = "out" /\ tasks'[t].exit # "ok")
          => tasks[t].transport \notin Pooled(pool')

\* C40: whatever the tasks calling TransportPool.acquire do, at most max
\* transports are held at a time and none by two tasks; a transport goes
\* back into the pool only when its holder's block exits without an
\* exception, and a holder that fails leaves the pool without its
\* transport.
C40_PoolDiscipline == []HeldApart /\ [][PutBackOnSuccessOnly]_vars

\* max tasks hold transports, one of them taken from the pool, while another
\* task waits.
C40_Witness ==
    /\ pool # NoPool
    /\ Cardinality(Holders) = pool.max
    /\ pool.max = MaxPoolMax
    /\ \E t \in Holders : ~tasks[t].force_fresh /\ tasks[t].transport < pool.opened
    /\ \E t \in Tasks : tasks[t].pc = "waiting"

====
